---------------------------- MODULE Spec2Model ----------------------------
(***************************************************************************)
(* A model of build.mjs (jussikinnula/accord07): the batch run that scans  *)
(* a legacy frame-based HTML tree, writes one cleaned page per HTML file   *)
(* (two-pane merge, frame listing or normal page), records a dedup         *)
(* candidate for each navigation-eligible page, groups the candidates by   *)
(* strict title, flags near-duplicates (SimHash + Jaccard) and produces    *)
(* the navigation manifest and the dedupe report.                          *)
(*                                                                         *)
(* Text is modelled at character level with TLA+ strings (Len, \o and      *)
(* SubSeq on strings).  A parsed document (what cheerio.load returns) is a *)
(* record; the HTML parser itself is a library and is not modelled.        *)
(* 64-bit values are sequences of eight bytes (least significant first) or *)
(* sets of bit positions, so that no arithmetic exceeds 32 bits.           *)
(***************************************************************************)
EXTENDS Integers, Sequences, FiniteSets, TLC

(***************************************************************************)
(* Characters and strings                                                  *)
(***************************************************************************)

\* The ASCII characters with codes 32..95 in code order: character k of this
\* string has char code 31 + k.  The lower-case letters have codes 97..122 and
\* "{|}~" the codes 123..126 (String.prototype.charCodeAt).
ASCII ==
  " !\"#$%&'()*+,-./0123456789:;<=>?@ABCDEFGHIJKLMNOPQRSTUVWXYZ[\\]^_"

UpperCase == "ABCDEFGHIJKLMNOPQRSTUVWXYZ"
LowerCase == "abcdefghijklmnopqrstuvwxyz"
Digits == "0123456789"

\* The character at position i, "" outside the string.
CharAt(s, i) == IF i \in 1..Len(s) THEN SubSeq(s, i, i) ELSE ""

\* String.prototype.substring on 1-based positions lo..hi, clipped to s.
Slice(s, lo, hi) ==
  LET a == IF lo < 1 THEN 1 ELSE lo
      b == IF hi > Len(s) THEN Len(s) ELSE hi
  IN IF a > b THEN "" ELSE SubSeq(s, a, b)

\* 0 when c does not occur in s, else the first position of c in s.
IndexOf(s, c) ==
  IF \E i \in 1..Len(s) : CharAt(s, i) = c
    THEN CHOOSE i \in 1..Len(s) :
           /\ CharAt(s, i) = c
           /\ \A j \in 1..(i - 1) : CharAt(s, j) # c
    ELSE 0

\* 0 when c does not occur in s, else the last position of c in s.
LastIndexOf(s, c) ==
  IF \E i \in 1..Len(s) : CharAt(s, i) = c
    THEN CHOOSE i \in 1..Len(s) :
           /\ CharAt(s, i) = c
           /\ \A j \in (i + 1)..Len(s) : CharAt(s, j) # c
    ELSE 0

CharsOf(s) == {CharAt(s, i) : i \in 1..Len(s)}

UpperSet == CharsOf(UpperCase)
LowerSet == CharsOf(LowerCase)
DigitSet == CharsOf(Digits)
SpaceSet == {" ", "\t", "\n"}
ControlSet == {"\t", "\n"}

\* The char code of every character of the model's alphabet.
CodeOf ==
  [c \in CharsOf(ASCII) \cup LowerSet \cup CharsOf("{|}~") \cup ControlSet |->
     IF c = "\t" THEN 9
     ELSE IF c = "\n" THEN 10
     ELSE IF c \in LowerSet THEN 96 + IndexOf(LowerCase, c)
     ELSE IF c \in CharsOf("{|}~") THEN 122 + IndexOf("{|}~", c)
     ELSE 31 + IndexOf(ASCII, c)]

charCodeAt(s, i) == CodeOf[CharAt(s, i)]

IsUpper(c) == c \in UpperSet
IsLetter(c) == c \in UpperSet \/ c \in LowerSet
IsDigit(c) == c \in DigitSet
IsSpace(c) == c \in SpaceSet
IsControl(c) == c \in ControlSet

LowerOf == [c \in UpperSet |-> CharAt(LowerCase, IndexOf(UpperCase, c))]

toLowerChar(c) == IF IsUpper(c) THEN LowerOf[c] ELSE c

\* String.prototype.toLowerCase, character by character (the string is
\* halved so that the evaluation depth stays logarithmic in its length).
RECURSIVE toLowerRange(_, _, _)
toLowerRange(s, lo, hi) ==
  IF lo > hi THEN ""
  ELSE IF lo = hi THEN toLowerChar(CharAt(s, lo))
  ELSE LET mid == (lo + hi) \div 2
       IN toLowerRange(s, lo, mid) \o toLowerRange(s, mid + 1, hi)

toLowerCase(s) ==
  IF \A i \in 1..Len(s) : ~IsUpper(CharAt(s, i)) THEN s
  ELSE toLowerRange(s, 1, Len(s))

startsWith(s, p) == Len(s) >= Len(p) /\ SubSeq(s, 1, Len(p)) = p
endsWith(s, p) == Len(s) >= Len(p) /\ SubSeq(s, Len(s) - Len(p) + 1, Len(s)) = p

\* String.prototype.trim
RECURSIVE trimStart(_)
trimStart(s) ==
  IF s # "" /\ IsSpace(CharAt(s, 1)) THEN trimStart(Tail(s)) ELSE s

RECURSIVE trimEnd(_)
trimEnd(s) ==
  IF s # "" /\ IsSpace(CharAt(s, Len(s)))
    THEN trimEnd(SubSeq(s, 1, Len(s) - 1))
    ELSE s

trim(s) == trimEnd(trimStart(s))

\* String.prototype.split on a one-character separator.
\* The positions of sep in s[lo..hi], ascending (by halving, as above).
RECURSIVE separatorsRange(_, _, _, _)
separatorsRange(s, sep, lo, hi) ==
  IF lo > hi THEN <<>>
  ELSE IF lo = hi THEN (IF CharAt(s, lo) = sep THEN <<lo>> ELSE <<>>)
  ELSE LET mid == (lo + hi) \div 2
       IN separatorsRange(s, sep, lo, mid) \o separatorsRange(s, sep, mid + 1, hi)

\* The pieces lo..hi of s, piece k lying between the cuts at[k] and at[k + 1].
RECURSIVE piecesRange(_, _, _, _)
piecesRange(s, at, lo, hi) ==
  IF lo > hi THEN <<>>
  ELSE IF lo = hi THEN <<SubSeq(s, at[lo] + 1, at[lo + 1] - 1)>>
  ELSE LET mid == (lo + hi) \div 2
       IN piecesRange(s, at, lo, mid) \o piecesRange(s, at, mid + 1, hi)

split(s, sep) ==
  LET at == <<0>> \o separatorsRange(s, sep, 1, Len(s)) \o <<Len(s) + 1>>
  IN piecesRange(s, at, 1, Len(at) - 1)

\* Array.prototype.join
RECURSIVE join(_, _)
join(parts, sep) ==
  IF parts = <<>> THEN ""
  ELSE IF Len(parts) = 1 THEN parts[1]
  ELSE parts[1] \o sep \o join(Tail(parts), sep)

\* Whether sub occurs in s.
includes(s, sub) ==
  \E i \in 1..(Len(s) - Len(sub) + 1) : SubSeq(s, i, i + Len(sub) - 1) = sub

Range(seq) == {seq[i] : i \in 1..Len(seq)}

(***************************************************************************)
(* Program constants                                                       *)
(***************************************************************************)

HAMMING_MAX == 3

\* JACCARD_MIN = 0.98 as the fraction JACCARD_MIN_NUM / JACCARD_MIN_DEN.
JACCARD_MIN_NUM == 98
JACCARD_MIN_DEN == 100

NAV_ROOT_PREFIX == "en/html/"

HTML_EXTS == {".html", ".htm"}

\* A regular expression of the exclusion list: a literal text matched
\* case-insensitively (flag i), anchored at the start (^), the end ($) or both.
EXCLUDE_FROM_NAV ==
  << [start |-> TRUE, text |-> "_com/", end |-> FALSE],
     [start |-> FALSE, text |-> "/esmblank.html", end |-> TRUE],
     [start |-> TRUE, text |-> "hondaesm.html", end |-> TRUE] >>

\* The alternatives of SUSPICIOUS_SCRIPT (flag i), in lower case.
SUSPICIOUS_SCRIPT ==
  {"activex", "hhctrl", "classid", "createobject", "activexobject", "mshta"}

\* EVENT_ATTR_RE = /^on[a-z]+$/i
EVENT_ATTR_RE(k) ==
  LET n == toLowerCase(k) IN
  /\ Len(n) >= 3
  /\ SubSeq(n, 1, 2) = "on"
  /\ \A i \in 3..Len(n) : CharAt(n, i) \in LowerSet

(***************************************************************************)
(* Paths (node:path, posix flavour)                                        *)
(***************************************************************************)

basename(p) == SubSeq(p, LastIndexOf(p, "/") + 1, Len(p))

extname(p) ==
  LET b == basename(p)
      i == LastIndexOf(b, ".")
  IN IF i <= 1 THEN "" ELSE SubSeq(b, i, Len(b))

dirname(p) ==
  LET i == LastIndexOf(p, "/") IN
  IF i = 0 THEN "." ELSE IF i = 1 THEN "/" ELSE SubSeq(p, 1, i - 1)

\* path.posix.normalize on the segments of a relative path: "" and "." are
\* dropped, ".." removes the segment before it (or stays, above the start).
RECURSIVE normalizeSegments(_, _)
normalizeSegments(segs, acc) ==
  IF segs = <<>> THEN acc
  ELSE LET h == Head(segs) IN
       IF h = "" \/ h = "." THEN normalizeSegments(Tail(segs), acc)
       ELSE IF h = ".."
         THEN IF acc # <<>> /\ acc[Len(acc)] # ".."
                THEN normalizeSegments(Tail(segs), SubSeq(acc, 1, Len(acc) - 1))
                ELSE normalizeSegments(Tail(segs), Append(acc, ".."))
       ELSE normalizeSegments(Tail(segs), Append(acc, h))

normalize(p) ==
  LET body == join(normalizeSegments(split(p, "/"), <<>>), "/")
      abs == startsWith(p, "/")
      trail == endsWith(p, "/")
  IN IF body = ""
       THEN (IF abs THEN "/" ELSE IF trail THEN "./" ELSE ".")
       ELSE (IF abs THEN "/" ELSE "") \o body \o (IF trail THEN "/" ELSE "")

\* toPosix splits on path.sep and joins with "/": the identity where path.sep
\* is "/".
toPosix(p) == join(split(p, "/"), "/")

isHtml(p) == toLowerCase(extname(p)) \in HTML_EXTS

resolveRelative(fromRel, hrefRel) ==
  LET baseDir == dirname(fromRel) IN
  toPosix(normalize(baseDir \o "/" \o hrefRel))

RegexTest(rx, s) ==
  LET t == toLowerCase(s) IN
  IF rx.start /\ rx.end THEN t = rx.text
  ELSE IF rx.start THEN startsWith(t, rx.text)
  ELSE IF rx.end THEN endsWith(t, rx.text)
  ELSE includes(t, rx.text)

isExcludedFromNav(relPath) ==
  \E i \in 1..Len(EXCLUDE_FROM_NAV) : RegexTest(EXCLUDE_FROM_NAV[i], relPath)

\* /_pr1\.html?$/: the pattern without the second pane.
IsPanePath_firstPaneOnly(p) ==
  \E e \in {".html", ".htm"} : endsWith(p, "_pr1" \o e)

\* /_pr[12]\.html?$/ on a lower-cased path
IsPanePath(p) ==
  \E n \in {"1", "2"}, e \in {".html", ".htm"} : endsWith(p, "_pr" \o n \o e)

\* Title must be non-empty and contain at least one letter or digit.
isMeaningfulTitle(str) ==
  LET t == trim(str) IN
  /\ Len(t) > 0
  /\ \E i \in 1..Len(t) : IsLetter(CharAt(t, i)) \/ IsDigit(CharAt(t, i))

includeInFlatNav(relPath, strictTitle) ==
  LET p == toLowerCase(relPath) IN
  /\ startsWith(p, NAV_ROOT_PREFIX)
  /\ ~IsPanePath(p)
  /\ ~isExcludedFromNav(relPath)
  /\ isMeaningfulTitle(strictTitle)

(***************************************************************************)
(* Tokenization and SimHash                                                *)
(***************************************************************************)

\* .replace(/[\u0000-\u001F]+/g, " "): every run of control characters
\* becomes one space (written at the first character of the run).
RECURSIVE controlRunsRange(_, _, _)
controlRunsRange(s, lo, hi) ==
  IF lo > hi THEN ""
  ELSE IF lo = hi
    THEN IF IsControl(CharAt(s, lo))
           THEN IF lo > 1 /\ IsControl(CharAt(s, lo - 1)) THEN "" ELSE " "
           ELSE CharAt(s, lo)
  ELSE LET mid == (lo + hi) \div 2
       IN controlRunsRange(s, lo, mid) \o controlRunsRange(s, mid + 1, hi)

replaceControlRuns(s) == controlRunsRange(s, 1, Len(s))

\* .replace(/[^\p{L}\p{N}\s]/gu, " "): every character that is no letter,
\* digit or white space becomes a space.
RECURSIVE punctuationRange(_, _, _)
punctuationRange(s, lo, hi) ==
  IF lo > hi THEN ""
  ELSE IF lo = hi
    THEN LET c == CharAt(s, lo)
         IN IF IsLetter(c) \/ IsDigit(c) \/ IsSpace(c) THEN c ELSE " "
  ELSE LET mid == (lo + hi) \div 2
       IN punctuationRange(s, lo, mid) \o punctuationRange(s, mid + 1, hi)

replacePunctuation(s) == punctuationRange(s, 1, Len(s))

\* .replace(/\s+/g, " "): every run of white space becomes one space.
RECURSIVE whitespaceRange(_, _, _)
whitespaceRange(s, lo, hi) ==
  IF lo > hi THEN ""
  ELSE IF lo = hi
    THEN IF IsSpace(CharAt(s, lo))
           THEN IF lo > 1 /\ IsSpace(CharAt(s, lo - 1)) THEN "" ELSE " "
           ELSE CharAt(s, lo)
  ELSE LET mid == (lo + hi) \div 2
       IN whitespaceRange(s, lo, mid) \o whitespaceRange(s, mid + 1, hi)

squeezeWhitespace(s) == whitespaceRange(s, 1, Len(s))

\* The string chain of normalizeTextForCompare, applied to the body text.
normalizeText(txt) ==
  trim(squeezeWhitespace(replacePunctuation(replaceControlRuns(toLowerCase(txt)))))

\* Basic word tokens; tokens of length <= 2 are dropped.
tokenize(text) == SelectSeq(split(text, " "), LAMBDA w : Len(w) > 2)

\* 64-bit values as eight bytes, least significant first.
FNV_OFFSET == <<37, 35, 34, 132, 228, 156, 242, 203>>   \* 0xcbf29ce484222325
FNV_PRIME == <<179, 1, 0, 0, 0, 1, 0, 0>>               \* 0x100000001b3

BitOf(n, i) == (n \div (2 ^ i)) % 2

\* a ^ b, bit by bit from the lowest.
RECURSIVE xorBits(_, _)
xorBits(a, b) ==
  IF a = 0 THEN b
  ELSE IF b = 0 THEN a
  ELSE (IF a % 2 = b % 2 THEN 0 ELSE 1) + 2 * xorBits(a \div 2, b \div 2)

\* hash ^= BigInt(code), code < 2^16: only the two low bytes change.
xorCode(hash, code) ==
  << xorBits(hash[1], code % 256), xorBits(hash[2], code \div 256),
     hash[3], hash[4], hash[5], hash[6], hash[7], hash[8] >>

RECURSIVE columnSum(_, _, _, _)
columnSum(a, b, k, j) ==
  IF j > k THEN 0 ELSE a[j] * b[k - j + 1] + columnSum(a, b, k, j + 1)

RECURSIVE mulColumns(_, _, _, _)
mulColumns(a, b, k, carry) ==
  IF k > 8 THEN <<>>
  ELSE LET t == columnSum(a, b, k, 1) + carry IN
       <<t % 256>> \o mulColumns(a, b, k + 1, t \div 256)

\* (a * b) & 0xFFFFFFFFFFFFFFFFn
mul64(a, b) == mulColumns(a, b, 1, 0)

RECURSIVE fnvLoop(_, _, _)
fnvLoop(str, i, hash) ==
  IF i > Len(str) THEN hash
  ELSE fnvLoop(str, i + 1, mul64(xorCode(hash, charCodeAt(str, i)), FNV_PRIME))

\* FNV-1a 64-bit
fnv1a64(str) == fnvLoop(str, 1, FNV_OFFSET)

\* (h >> BigInt(i)) & 1n
hashBit(h, i) == BitOf(h[(i \div 8) + 1], i % 8)

\* const h = fnv1a64(t), for every token t in turn
\* (the list is halved so that the evaluation depth stays logarithmic)
RECURSIVE hashesRange(_, _, _)
hashesRange(tokens, lo, hi) ==
  IF lo > hi THEN <<>>
  ELSE IF lo = hi THEN <<fnv1a64(tokens[lo])>>
  ELSE LET mid == (lo + hi) \div 2
       IN hashesRange(tokens, lo, mid) \o hashesRange(tokens, mid + 1, hi)

tokenHashes(tokens) == hashesRange(tokens, 1, Len(tokens))

\* vote with v[i] assigned instead of added to: the last token decides.
vote_assigned(hs, i) ==
  IF hs = <<>> THEN 0
  ELSE IF hashBit(hs[Len(hs)], i) = 1 THEN 1 ELSE -1

\* v[i] after the loop over the tokens: +1 for every hash with bit i, -1 for
\* every hash without it.
vote(hs, i) ==
  LET ones == Cardinality({k \in 1..Len(hs) : hashBit(hs[k], i) = 1})
  IN ones - (Len(hs) - ones)

\* simhash64 with a bit set on a vote that is not negative.
simhash64_tieOne(tokens) ==
  LET hs == tokenHashes(tokens)
  IN {i \in 0..63 : vote(hs, i) >= 0}

\* A fingerprint is the set of the bit positions 0..63 that are 1.
simhash64(tokens) ==
  LET bits == 64
      hs == tokenHashes(tokens)
  IN {i \in 0..(bits - 1) : vote(hs, i) > 0}

Min(S) == CHOOSE x \in S : \A y \in S : x <= y

\* while (x) { x &= (x - 1n); count++; }: each round clears the lowest 1 bit.
RECURSIVE hammingLoop(_, _)
hammingLoop(x, count) ==
  IF x = {} THEN count ELSE hammingLoop(x \ {Min(x)}, count + 1)

\* hamming64 through a 32-bit number: the bits from 32 on are lost.
hamming64_low32(a, b) == hammingLoop(((a \ b) \cup (b \ a)) \cap (0..31), 0)

hamming64(a, b) == hammingLoop((a \ b) \cup (b \ a), 0)

\* jaccard without the test of an empty union: 0 / 0.
jaccard_unguarded(aSet, bSet) ==
  [num |-> Cardinality({x \in bSet : x \in aSet}), den |-> Cardinality(aSet \cup bSet)]

\* The Jaccard similarity as the fraction num / den (1 / 1 for two empty sets).
jaccard(aSet, bSet) ==
  LET inter == Cardinality({x \in bSet : x \in aSet})
      union == Cardinality(aSet \cup bSet)
  IN IF union = 0 THEN [num |-> 1, den |-> 1] ELSE [num |-> inter, den |-> union]

\* jac >= JACCARD_MIN.  inter / union is the double nearest to the quotient
\* and 0.98 the double nearest to 98/100, so the comparison of the doubles is
\* the comparison of the fractions for every set size the model reaches.
atLeastJaccardMin(jac) == jac.num * JACCARD_MIN_DEN >= JACCARD_MIN_NUM * jac.den

(***************************************************************************)
(* Documents                                                               *)
(*                                                                         *)
(* A parsed document (the $ of cheerio.load) is a record:                  *)
(*   titles    the texts of its title elements, in document order          *)
(*   charset   whether it has a meta element with a charset attribute      *)
(*   frameset  whether it has a frameset element                           *)
(*   frames    its frame elements, [name, src] ("" for a missing attribute)*)
(*   hasBody   whether it has a body element                               *)
(*   body      the nodes of the body, in document order                    *)
(* and a node is [tag, attrs, text, kids]: "#text" is a text node, attrs is *)
(* the sequence of <<name, value>> pairs, text the node's own text and     *)
(* kids its child nodes.                                                   *)
(***************************************************************************)

Text(t) == [tag |-> "#text", attrs |-> <<>>, text |-> t, kids |-> <<>>]
El(tag, attrs, t, kids) == [tag |-> tag, attrs |-> attrs, text |-> t, kids |-> kids]

\* cheerio.load("")
EmptyDoc ==
  [titles |-> <<>>, charset |-> FALSE, frameset |-> FALSE, frames |-> <<>>,
   hasBody |-> TRUE, body |-> <<>>]

\* .text() of a node list: the texts of the nodes and of their descendants,
\* in document order.
RECURSIVE textOf(_)
textOf(nodes) ==
  IF nodes = <<>> THEN ""
  ELSE Head(nodes).text \o textOf(Head(nodes).kids) \o textOf(Tail(nodes))

\* $(tags).remove(): the node list without the elements of these tags.
RECURSIVE removeTags(_, _)
removeTags(nodes, tags) ==
  IF nodes = <<>> THEN <<>>
  ELSE LET n == Head(nodes) IN
       (IF n.tag \in tags
          THEN <<>>
          ELSE <<[n EXCEPT !.kids = removeTags(n.kids, tags)]>>)
         \o removeTags(Tail(nodes), tags)

\* The elements of one tag, in document order.
RECURSIVE byTag(_, _)
byTag(nodes, tag) ==
  IF nodes = <<>> THEN <<>>
  ELSE LET n == Head(nodes) IN
       (IF n.tag = tag THEN <<n>> ELSE <<>>)
         \o byTag(n.kids, tag) \o byTag(Tail(nodes), tag)

attr(n, name) ==
  LET hits == SelectSeq(n.attrs, LAMBDA kv : kv[1] = name) IN
  IF hits = <<>> THEN "" ELSE hits[1][2]

\* $("title").first().text() || ""
titleText(doc) == IF doc.titles = <<>> THEN "" ELSE doc.titles[1]

\* $("h1").first().text()
h1Text(doc) ==
  LET hs == byTag(doc.body, "h1") IN
  IF hs = <<>> THEN "" ELSE textOf(<<hs[1]>>)

isSuspicious(s) == \E w \in SUSPICIOUS_SCRIPT : includes(toLowerCase(s), w)

\* Remove suspicious scripts (IE/ActiveX-era stuff).
RECURSIVE removeSuspiciousScripts(_)
removeSuspiciousScripts(nodes) ==
  IF nodes = <<>> THEN <<>>
  ELSE LET n == Head(nodes) IN
       (IF n.tag = "script" /\ (isSuspicious(attr(n, "src")) \/ isSuspicious(n.text))
          THEN <<>>
          ELSE <<[n EXCEPT !.kids = removeSuspiciousScripts(n.kids)]>>)
         \o removeSuspiciousScripts(Tail(nodes))

\* Strip inline event handlers.
\* stripEventAttrs on the elements of the first level only.
stripEventAttrs_shallow(nodes) ==
  [i \in 1..Len(nodes) |->
     [nodes[i] EXCEPT !.attrs = SelectSeq(@, LAMBDA kv : ~EVENT_ATTR_RE(kv[1]))]]

RECURSIVE stripEventAttrs(_)
stripEventAttrs(nodes) ==
  IF nodes = <<>> THEN <<>>
  ELSE LET n == Head(nodes) IN
       <<[n EXCEPT !.attrs = SelectSeq(n.attrs, LAMBDA kv : ~EVENT_ATTR_RE(kv[1])),
                   !.kids = stripEventAttrs(n.kids)]>>
         \o stripEventAttrs(Tail(nodes))

cleanBasicHtml(html, keepScripts) ==
  LET noScripts == IF keepScripts THEN html.body
                   ELSE removeSuspiciousScripts(html.body)
  IN [titles |-> IF html.titles = <<>> THEN <<"">> ELSE html.titles,
      charset |-> TRUE,
      frameset |-> FALSE,
      frames |-> <<>>,
      hasBody |-> html.hasBody,
      body |-> stripEventAttrs(noScripts)]

\* Strictly read the <title> text only (no fallbacks).
headTitleStrict(doc) == trim(titleText(doc))

\* Display title used in the actual HTML page (may fall back to h1 or filename).
displayTitle(doc, fallback) ==
  LET t == trim(titleText(doc))
      h1 == trim(h1Text(doc))
      u == IF t = "" THEN (IF h1 # "" THEN h1 ELSE fallback) ELSE t
  IN IF u # "" THEN u ELSE fallback

\* doc$.root().html() of a document without a body: the markup of its head.
rootHtml(doc) ==
  (IF doc.charset THEN <<El("meta", <<<<"charset", "utf-8">>>>, "", <<>>)>> ELSE <<>>)
    \o [i \in 1..Len(doc.titles) |-> El("title", <<>>, doc.titles[i], <<>>)]

extractBodyInnerHtml(doc) == IF doc.hasBody THEN doc.body ELSE rootHtml(doc)

looksLikeFrameset(doc) == doc.frameset /\ Len(doc.frames) > 0

normalizeTextForCompare(doc) ==
  LET body == IF doc.hasBody
                THEN removeTags(doc.body, {"script", "style", "noscript"})
                ELSE <<>>
  IN normalizeText(textOf(body))

(***************************************************************************)
(* Source trees                                                            *)
(*                                                                         *)
(* The input of a run is a directory tree: a set of files, each a relative *)
(* path and the parsed document of its text (an asset has no document).    *)
(* The trees of the model are the subsets, of at most MaxFiles files, of   *)
(* four directories.                                                       *)
(***************************************************************************)

MaxFiles == 3

Page(title, body) ==
  [titles |-> <<title>>, charset |-> FALSE, frameset |-> FALSE, frames |-> <<>>,
   hasBody |-> TRUE, body |-> body]

\* A frameset document has no body element.
FramesetPage(titles, frames) ==
  [titles |-> titles, charset |-> FALSE, frameset |-> TRUE, frames |-> frames,
   hasBody |-> FALSE, body |-> <<>>]

Frame(name, src) == [name |-> name, src |-> src]
P(t) == <<El("p", <<>>, t, <<>>)>>
File(path, doc) == [path |-> path, doc |-> doc]
Asset == [raw |-> "GIF89a"]

\* Same-title pages: against "Oil pan, nut: rod NUT." the fingerprints of the
\* others are at Hamming distance 6, 3, 4, 4 and 0.
DupDir ==
  { File("en/html/D01.html", Page("Engine Removal", P("Oil pan, nut: rod NUT."))),
    File("en/html/D02.html", Page(" Engine Removal\n", P("Oil pan nut rod"))),
    File("en/html/D03.html", Page("Engine Removal", P("Oil pan nut"))),
    File("en/html/D04.html", Page("Engine Removal", P("Pan nut rod"))),
    File("en/html/D05.html", Page("Engine Removal", P("pan - nut - rod"))),
    File("en/html/D06.html", Page("Engine Removal", P("Nut rod nut pan oil"))),
    File("en/html/D07.html", Page("engine removal", P("Oil pan nut rod nut"))) }

\* Fifty distinct tokens; without the last one the fingerprint is at Hamming
\* distance 4 (Jaccard 49/50), without the first two at 5 (Jaccard 48/50).
BigText ==
  "bax bex bix box bux dax dex dix dox dux fax fex fix fox fux gax gex gix gox gux kax kex kix kox kux lax lex lix lox lux max mex mix mox mux nax nex nix nox nux pax pex pix pox pux rax rex rix rox rux"

BigDir ==
  { File("en/html/B50.html", Page("Parts List", P(BigText))),
    File("en/html/B49.html", Page("Parts List", P(SubSeq(BigText, 1, 195)))),
    File("en/html/B48.html", Page("Parts List", P(SubSeq(BigText, 9, 199)))) }

\* Paths and titles at the edges of navigation eligibility.
NavDir ==
  { File("en/html/A01.html", Page("Brakes", P("Brake pad wear"))),
    File("EN/HTML/A02.HTM", Page("Brakes", P("Brake pad wear limit"))),
    File("other/A03.html", Page("Brakes", P("Brake pad wear"))),
    File("en/html/A04_PR1.html", Page("Brakes", P("Brake pad wear"))),
    File("en/html/ESMBLANK.HTML", Page("Blank", <<>>)),
    File("en/html/A06.html", Page("", P("Clutch pedal"))),
    File("en/html/A07.html",
         Page(" - ", <<El("h1", <<>>, "Clutch", <<>>), Text("\n")>> \o P("Clutch pedal"))),
    File("en/html/A08.html",
         Page(" \n ", <<El("h1", <<>>, " Clutch ", <<>>), Text("\n")>> \o P("Clutch pedal"))),
    File("HONDAESM.HTML",
         FramesetPage(<<"Honda ESM">>,
                      <<Frame("nav", "en/html/A01.html"), Frame("main", "_COM/HOME.HTML")>>)),
    File("en/html/logo.gif", Asset) }

\* Frame-based pages and their panes.
FrameDir ==
  { File("en/html/F01.html",
         FramesetPage(<<"Wiring">>,
                      <<Frame("left", "F01_PR1.html"), Frame("right", "F01_PR2.html")>>)),
    File("en/html/F01_PR1.html",
         Page("Wiring index",
              <<El("script", <<>>, "new ActiveXObject('x')", <<>>),
                El("a", <<<<"href", "javascript:parent.Prt('F01_PR2')">>,
                          <<"onclick", "go()">>>>, "Fuse box", <<>>)>>)),
    File("en/html/F01_PR2.html", Page("Wiring detail", P("Relay list"))),
    File("en/html/F02.html",
         FramesetPage(<<"Fuses">>, <<Frame("", "P01.html"), Frame("img", "logo.gif")>>)),
    File("en/html/P01.html", Page("Fuse panel", P("Fuse panel layout"))),
    File("en/html/logo.gif", Asset),
    File("en/html/F03.html",
         FramesetPage(<<"Index">>,
                      <<Frame("top", "top.html"), Frame("", "F01_PR1.html"),
                        Frame("main", "F01_PR2.html")>>)),
    File("en/html/F05.html",
         FramesetPage(<<>>, <<Frame("a", "P01.html"), Frame("b", "MISSING.html")>>)),
    File("en/html/F07.html",
         FramesetPage(<<"Nested">>, <<Frame("a", "F03.html"), Frame("b", "./P01.html")>>)) }

\* <a href="...">label</a>; the white space between two links of a page is
\* kept at the end of the label.
Link(href, label) == El("a", <<<<"href", href>>>>, label, <<>>)

\* Pages with "javascript:parent.*" links and the files the links may open.
LinkDir ==
  { File("en/html/L01.html",
         Page("links",
              << Link("javascript:parent.Prt('ABC123')", "related "),
                 Link("javascript:parent.Cts('ABC123')", "contents "),
                 Link("javascript:parent.Jmp('ABC123')", "jump "),
                 Link("javascript:parent.Prt('ABC123','2')", "page 2 "),
                 Link("javascript:parent.Prt( 'ABC123' , 3 )", "page 3 "),
                 Link("javascript:parent.Prt('ABC123','12')", "page 12 "),
                 Link("javascript:parent.Prt('NONE')", "none "),
                 Link("javascript:parent.Top()", "top "),
                 Link("ABC123.html", "plain") >>)),
    File("other/L02.html",
         Page("More links",
              << Link("javascript:parent.Prt('ABC123')", "related "),
                 Link("javascript:parent.Cts('../en/html/ABC123')", "contents ") >>)),
    File("en/html/ABC123.html", Page("Specifications", P("Torque table"))),
    File("en/html/ABC123_PR.html", Page("Specifications print", P("Torque print"))),
    File("en/html/ABC123_PR1.html", Page("Specifications left", P("Torque left"))),
    File("en/html/ABC123_PR2.html", Page("Specifications right", P("Torque right"))) }

\* Frameset pages with frame elements that name no document.
RefDir ==
  { File("en/html/R01.html",
         FramesetPage(<<"Three frames">>,
                      <<Frame("menu", ""), Frame("left", "R04.html"),
                        Frame("right", "R09.html")>>)),
    File("en/html/R02.html",
         FramesetPage(<<"One reference">>, <<Frame("only", "R04.html"), Frame("blank", "")>>)),
    File("en/html/R03.html",
         FramesetPage(<<"No reference">>, <<Frame("a", ""), Frame("b", "")>>)),
    File("en/html/R04.html", Page("Pane", P("Pane text"))) }

Directories == {DupDir, BigDir, NavDir, FrameDir, LinkDir, RefDir}

\* The source trees: path -> content.
Trees ==
  { [p \in {f.path : f \in S} |-> (CHOOSE f \in S : f.path = p).doc] :
      S \in UNION {{T \in SUBSET D : Cardinality(T) <= MaxFiles} : D \in Directories} }

(***************************************************************************)
(* main                                                                    *)
(***************************************************************************)

VARIABLES
  pc,            \* where main is: "scan", "html", "dedupe" or "done"
  srcDir,        \* the source tree: relative path -> content
  allPaths,      \* the Set allPaths, in insertion order
  queue,         \* the HTML paths Pass 2 has still to process
  outDir,        \* the output tree: relative path -> [kind, doc] as written
  paneReads,     \* the source paths read as panes of a two-frame page
  candidates,    \* the dedup candidates, in the order they were pushed
  byTitle,       \* the Map strictTitle -> candidates, as [title, arr] entries
  gi,            \* the entry of byTitle the dedupe loop is at
  navItems,      \* { title, path, dup }
  dedupeReport,  \* { title, kept, duplicates, reason }
  report,        \* _dedupe-report.json as written (<<>> before)
  index,         \* the list written to index.html (<<>> before)
  call,          \* a helper function called on its own: its name and arguments
  ret,           \* <<the value the call returned>> (<<>> before)
  fulltext,      \* the array fulltext of the build with a full-text index: { p, t, w, s }
  ftIndex,       \* _fulltext.json as written (<<>> before)
  search,        \* index page: search.value
  hideDup,       \* index page: toggleHideDup.checked
  searchTimer,   \* index page: the timeout of requestFilter is pending
  searchSeq,     \* index page: searchSeq
  runs,          \* index page: the calls of applyFiltersNow: mySeq -> [q, hideDup, i, frame]
  display,       \* index page: list item -> it is displayed (el.style.display = '')
  useContent,    \* index page with content search: toggleContent.checked
  ftWorker,      \* index page with content search: the worker has been created
  ftLoaded,      \* index page with content search: ftLoaded
  data,          \* the worker: data is loaded
  workerInbox,   \* the messages posted to the worker, oldest first
  pageInbox,     \* the messages the worker posted to the page, oldest first
  existsCache,   \* audit script: the Map existsCache, path -> boolean
  checks,        \* audit script: the existence checks started and not completed
  brokenLinks,   \* audit script: the array brokenLinks: { from, href }
  analysisReport \* audit script: the broken-link samples serialized (JSON, Markdown)

\* The variables of the audit script.
auditVars == <<existsCache, checks, brokenLinks, analysisReport>>

\* The variables of the build and audit scripts, but pc.
buildVars ==
  <<srcDir, allPaths, queue, outDir, paneReads, candidates, byTitle, gi,
    navItems, dedupeReport, report, index, call, ret, fulltext, ftIndex,
    auditVars>>

\* The variables of the index page.
pageVars == <<search, hideDup, searchTimer, searchSeq, runs, display>>

\* The variables of the content search of the index page.
workerVars == <<useContent, ftWorker, ftLoaded, data, workerInbox, pageInbox>>

\* The state of the programs other than the build script of build.mjs.
otherVars == <<fulltext, ftIndex, pageVars, workerVars, auditVars>>

\* No page is open.
PageClosed ==
  /\ search = ""
  /\ hideDup = FALSE
  /\ searchTimer = FALSE
  /\ searchSeq = 0
  /\ runs = <<>>
  /\ display = <<>>

\* No worker.
NoWorker ==
  /\ useContent = FALSE
  /\ ftWorker = FALSE
  /\ ftLoaded = FALSE
  /\ data = FALSE
  /\ workerInbox = <<>>
  /\ pageInbox = <<>>

\* No audit.
NoAudit ==
  /\ existsCache = <<>>
  /\ checks = {}
  /\ brokenLinks = <<>>
  /\ analysisReport = <<>>

OtherInit ==
  /\ fulltext = <<>>
  /\ ftIndex = <<>>
  /\ PageClosed
  /\ NoWorker
  /\ NoAudit

vars ==
  <<pc, srcDir, allPaths, queue, outDir, paneReads, candidates, byTitle, gi,
    navItems, dedupeReport, report, index, call, ret, fulltext, ftIndex,
    search, hideDup, searchTimer, searchSeq, runs, display,
    useContent, ftWorker, ftLoaded, data, workerInbox, pageInbox,
    existsCache, checks, brokenLinks, analysisReport>>

Init ==
  /\ pc = "scan"
  /\ srcDir \in Trees
  /\ allPaths = <<>>
  /\ queue = <<>>
  /\ outDir = <<>>
  /\ paneReads = {}
  /\ candidates = <<>>
  /\ byTitle = <<>>
  /\ gi = 1
  /\ navItems = <<>>
  /\ dedupeReport = <<>>
  /\ report = <<>>
  /\ index = <<>>
  /\ call = <<>>
  /\ ret = <<>>
  /\ OtherInit

\* for await (const abs of walk(srcDir)) allPaths.add(...): one file of the
\* tree, in the order the directory listing gives.
Walk ==
  /\ pc = "scan"
  /\ \E p \in DOMAIN srcDir \ Range(allPaths) :
       allPaths' = Append(allPaths, toPosix(p))
  /\ UNCHANGED <<pc, srcDir, queue, outDir, paneReads, candidates, byTitle, gi,
                 navItems, dedupeReport, report, index, call, ret, otherVars>>

\* CopyAssets with Pass 2 leaving out the documents named like panes.
CopyAssets_skipPanes ==
  /\ pc = "scan"
  /\ Range(allPaths) = DOMAIN srcDir
  /\ outDir' = [rel \in {q \in Range(allPaths) : ~isHtml(q)} |->
                  [kind |-> "asset", doc |-> srcDir[rel]]]
  /\ queue' = SelectSeq(allPaths, LAMBDA q : isHtml(q) /\ ~IsPanePath(toLowerCase(q)))
  /\ pc' = "html"
  /\ UNCHANGED <<srcDir, allPaths, paneReads, candidates, byTitle, gi,
                 navItems, dedupeReport, report, index, call, ret, otherVars>>

\* Pass 1: copy non-HTML files; then Pass 2 starts on [...allPaths].filter(isHtml).
CopyAssets ==
  /\ pc = "scan"
  /\ Range(allPaths) = DOMAIN srcDir
  /\ outDir' = [rel \in {q \in Range(allPaths) : ~isHtml(q)} |->
                  [kind |-> "asset", doc |-> srcDir[rel]]]
  /\ queue' = SelectSeq(allPaths, isHtml)
  /\ pc' = "html"
  /\ UNCHANGED <<srcDir, allPaths, paneReads, candidates, byTitle, gi,
                 navItems, dedupeReport, report, index, call, ret, otherVars>>

\* frameRefs counting the frames without a src too.
frameRefs_all(doc) == doc.frames

\* frameRefs that stops after the second frame.
frameRefs_firstTwo(doc) ==
  LET refs == SelectSeq(doc.frames, LAMBDA f : f.src # "")
  IN IF Len(refs) > 2 THEN SubSeq(refs, 1, 2) ELSE refs

\* The frame elements that have a src.
frameRefs(doc) == SelectSeq(doc.frames, LAMBDA f : f.src # "")

\* Whether a pane is read from the source tree.
paneExists(rel, src) ==
  LET r == resolveRelative(rel, src) IN isHtml(r) /\ r \in Range(allPaths)

\* (convertLinks is defined with the normal pages, below.)
RECURSIVE convertLinks(_, _)

\* paneHtml with the links of the pane resolved as those of a normal page.
paneHtml_linksResolved(rel, src) ==
  IF paneExists(rel, src)
    THEN [srcDir[resolveRelative(rel, src)] EXCEPT
            !.body = convertLinks(resolveRelative(rel, src), @)]
    ELSE EmptyDoc

\* The parsed text of a pane: "" when it is no HTML file of the scan.
paneHtml(rel, src) ==
  IF paneExists(rel, src) THEN srcDir[resolveRelative(rel, src)] ELSE EmptyDoc

Class(c) == <<<<"class", c>>>>

\* mergedPage with the two panes interchanged.
mergedPage_swapped(dispTitle, left, right) ==
  [titles |-> <<dispTitle>>, charset |-> TRUE, frameset |-> FALSE,
   frames |-> <<>>, hasBody |-> TRUE,
   body |-> << Text("\n  "),
               El("div", Class("grid"), "",
                  << Text("\n    "), El("aside", Class("pane"), "", right),
                     Text("\n    "), El("main", Class("pane"), "", left),
                     Text("\n  ") >>),
               Text("\n") >>]

\* The merged two-pane page, as cheerio.load reads it back.
mergedPage(dispTitle, left, right) ==
  [titles |-> <<dispTitle>>, charset |-> TRUE, frameset |-> FALSE,
   frames |-> <<>>, hasBody |-> TRUE,
   body |-> << Text("\n  "),
               El("div", Class("grid"), "",
                  << Text("\n    "), El("aside", Class("pane"), "", left),
                     Text("\n    "), El("main", Class("pane"), "", right),
                     Text("\n  ") >>),
               Text("\n") >>]

RECURSIVE frameList(_)
frameList(frames) ==
  IF frames = <<>> THEN <<>>
  ELSE LET f == Head(frames)
           href == f.src
           label == IF f.name # "" THEN f.name
                    ELSE IF href # "" THEN href ELSE "frame"
       IN <<El("li", <<>>, "", <<El("a", <<<<"href", href>>>>, label, <<>>)>>)>>
            \o (IF Len(frames) > 1 THEN <<Text("\n")>> ELSE <<>>)
            \o frameList(Tail(frames))

\* The fallback listing page, as cheerio.load reads it back.
fallbackPage(dispTitle, frames) ==
  [titles |-> <<dispTitle>>, charset |-> TRUE, frameset |-> FALSE,
   frames |-> <<>>, hasBody |-> TRUE,
   body |-> << Text("\n"), El("h1", <<>>, dispTitle, <<>>), Text("\n"),
               El("p", <<>>, "This page used frames. Choose a pane to open:", <<>>),
               Text("\n"), El("ul", <<>>, "", frameList(frames)), Text("\n") >>]

candidate(rel, strictTitle, dispTitle, doc) ==
  LET norm == normalizeTextForCompare(doc)
      toks == tokenize(norm)
  IN [path |-> rel, strictTitle |-> strictTitle, dispTitle |-> dispTitle,
      textLen |-> Len(norm), simhash |-> simhash64(toks)]

\* if (includeInFlatNav(rel, strict)) candidates.push({...})
pushCandidate(rel, strict, dispTitle, doc) ==
  IF includeInFlatNav(rel, strict)
    THEN Append(candidates, candidate(rel, strict, dispTitle, doc))
    ELSE candidates

\* Pass 2, a frameset page with exactly two frame references: merge the panes.
\* (The values of the handler's constants are bound by \E over a one-element
\* set: each is computed once, where it is declared.)
MergeFrames ==
  /\ pc = "html"
  /\ queue # <<>>
  /\ LET rel == Head(queue)
         doc == srcDir[rel]
         frames == frameRefs(doc)
     IN /\ looksLikeFrameset(doc)
        /\ Len(frames) = 2
        /\ \E docA \in {cleanBasicHtml(paneHtml(rel, frames[1].src), FALSE)} :
           \E docB \in {cleanBasicHtml(paneHtml(rel, frames[2].src), FALSE)} :
           \E left \in {extractBodyInnerHtml(docA)} :
           \E right \in {extractBodyInnerHtml(docB)} :
           \E dispTitle \in {displayTitle(doc, basename(rel))} :
           \E merged \in {mergedPage(dispTitle, left, right)} :
           \E strict \in {headTitleStrict(doc)} :
              /\ outDir' = (rel :> [kind |-> "merged", doc |-> merged]) @@ outDir
              /\ paneReads' = paneReads \cup
                   {resolveRelative(rel, frames[i].src) :
                      i \in {j \in 1..2 : paneExists(rel, frames[j].src)}}
              /\ candidates' = pushCandidate(rel, strict, dispTitle, merged)
  /\ queue' = Tail(queue)
  /\ UNCHANGED <<pc, srcDir, allPaths, byTitle, gi, navItems, dedupeReport,
                 report, index, call, ret, otherVars>>

\* Pass 2, any other frameset page: the fallback listing.
FallbackFrames ==
  /\ pc = "html"
  /\ queue # <<>>
  /\ LET rel == Head(queue)
         doc == srcDir[rel]
         frames == frameRefs(doc)
     IN /\ looksLikeFrameset(doc)
        /\ Len(frames) # 2
        /\ \E dispTitle \in {displayTitle(doc, basename(rel))} :
           \E fallback \in {fallbackPage(dispTitle, frames)} :
           \E strict \in {headTitleStrict(doc)} :
              /\ outDir' = (rel :> [kind |-> "fallback", doc |-> fallback]) @@ outDir
              /\ candidates' = pushCandidate(rel, strict, dispTitle, fallback)
  /\ queue' = Tail(queue)
  /\ UNCHANGED <<pc, srcDir, allPaths, paneReads, byTitle, gi, navItems,
                 dedupeReport, report, index, call, ret, otherVars>>

\* The first position >= i of s that holds no white space (\s*).
RECURSIVE skipSpace(_, _)
skipSpace(s, i) ==
  IF i <= Len(s) /\ IsSpace(CharAt(s, i)) THEN skipSpace(s, i + 1) ELSE i

\* '([^']+)' read at position i: the captured text, "" when there is no match.
quotedAt(s, i) ==
  LET rest == Slice(s, i + 1, Len(s))
      q == IndexOf(rest, "'")
  IN IF CharAt(s, i) = "'" /\ q > 1 THEN Slice(rest, 1, q - 1) ELSE ""

\* The tail of the Prt pattern without the optional page argument.
prtTailAt_noPage(s, i) == CharAt(s, skipSpace(s, i)) = ")"

\* \s*(?:,\s*'?\d'?)?\s*\) read at position i.
prtTailAt(s, i) ==
  LET j == skipSpace(s, i)
      k == skipSpace(s, j + 1)
      d == IF CharAt(s, k) = "'" THEN k + 1 ELSE k
      e == IF CharAt(s, d + 1) = "'" THEN d + 2 ELSE d + 1
  IN \/ CharAt(s, j) = ")"
     \/ /\ CharAt(s, j) = ","
        /\ IsDigit(CharAt(s, d))
        /\ CharAt(s, skipSpace(s, e)) = ")"

\* js.match(/parent\.<fn>\(\s*'([^']+)' <tail>/i): the captures of the matches
\* at every position, leftmost first; tail is "prt", "cts" or "jmp".
matchesOf(js, fn, tail) ==
  LET head == "parent." \o fn \o "("
      at(i) ==
        LET q == skipSpace(js, i + Len(head))
            id == quotedAt(js, q)
            after == q + Len(id) + 2
        IN IF /\ toLowerCase(Slice(js, i, i + Len(head) - 1)) = head
              /\ id # ""
              /\ CASE tail = "prt" -> prtTailAt(js, after)
                   [] tail = "jmp" -> CharAt(js, skipSpace(js, after)) = ")"
                   [] OTHER -> TRUE
             THEN id ELSE ""
  IN SelectSeq([i \in 1..Len(js) |-> at(i)], LAMBDA id : id # "")

\* candidateTargets with the pane names tried before the print page.
candidateTargets_panesFirst(id) ==
  << id \o ".html", id \o "_PR1.html", id \o "_PR2.html", id \o "_PR.html" >>

\* function* candidateTargets(id)
candidateTargets(id) ==
  << id \o ".html", id \o "_PR.html", id \o "_PR1.html", id \o "_PR2.html" >>

\* The first candidate target of the first captured id that is a file of the
\* scan; "" when there is no match or no such file.
firstTarget(rel, ids) ==
  LET hits == SelectSeq(candidateTargets(Head(ids \o <<"">>)),
                        LAMBDA cand : resolveRelative(rel, cand) \in Range(allPaths))
  IN Head(IF ids = <<>> THEN <<"">> ELSE hits \o <<"">>)

\* convertHref without the final "#": an unresolved link keeps its href.
convertHref_keepUnresolved(rel, js) ==
  Head(SelectSeq(<< firstTarget(rel, matchesOf(js, "prt", "prt")),
                    firstTarget(rel, matchesOf(js, "cts", "cts")),
                    IF matchesOf(js, "jmp", "jmp") # <<>> THEN "#" ELSE "",
                    js >>,
                 LAMBDA href : href # ""))

\* convertHref with a Jmp call resolved like a Cts call.
convertHref_jmpResolved(rel, js) ==
  Head(SelectSeq(<< firstTarget(rel, matchesOf(js, "prt", "prt")),
                    firstTarget(rel, matchesOf(js, "cts", "cts")),
                    firstTarget(rel, matchesOf(js, "jmp", "jmp")),
                    "#" >>,
                 LAMBDA href : href # ""))

\* The new href of one "javascript:parent.*" link: the Prt target, else the
\* Cts target, else "#" (for a Jmp call and for everything else).
convertHref(rel, js) ==
  Head(SelectSeq(<< firstTarget(rel, matchesOf(js, "prt", "prt")),
                    firstTarget(rel, matchesOf(js, "cts", "cts")),
                    IF matchesOf(js, "jmp", "jmp") # <<>> THEN "#" ELSE "",
                    "#" >>,
                 LAMBDA href : href # ""))

\* doc$("a[href^='javascript:parent.']").each(...)
convertLinks(rel, nodes) ==
  IF nodes = <<>> THEN <<>>
  ELSE LET n == Head(nodes)
           js == attr(n, "href")
           isLink == n.tag = "a" /\ startsWith(js, "javascript:parent.")
           attrs == IF isLink
                      THEN [i \in 1..Len(n.attrs) |->
                              IF n.attrs[i][1] = "href"
                                THEN <<"href", convertHref(rel, js)>>
                                ELSE n.attrs[i]]
                      ELSE n.attrs
       IN <<[n EXCEPT !.attrs = attrs, !.kids = convertLinks(rel, n.kids)]>>
            \o convertLinks(rel, Tail(nodes))

\* doc$("title").first().text(dispTitle)
setTitle(doc, t) ==
  IF doc.titles = <<>> THEN doc ELSE [doc EXCEPT !.titles[1] = t]

\* Pass 2, a normal page: clean, rewrite the title, write, then read the
\* strict title of the page as written.
NormalPage ==
  /\ pc = "html"
  /\ queue # <<>>
  /\ LET rel == Head(queue)
         raw == srcDir[rel]
     IN /\ ~looksLikeFrameset(raw)
        /\ \E clean \in {cleanBasicHtml(raw, TRUE)} :
           \E cleaned \in {[clean EXCEPT !.body = convertLinks(rel, clean.body)]} :
           \E dispTitle \in {displayTitle(cleaned, basename(rel))} :
           \E written \in {setTitle(cleaned, dispTitle)} :
           \E strict \in {headTitleStrict(written)} :
              /\ outDir' = (rel :> [kind |-> "normal", doc |-> written]) @@ outDir
              /\ candidates' = pushCandidate(rel, strict, dispTitle, written)
  /\ queue' = Tail(queue)
  /\ UNCHANGED <<pc, srcDir, allPaths, paneReads, byTitle, gi, navItems,
                 dedupeReport, report, index, call, ret, otherVars>>


\* groupByTitle with the titles compared without their case.
RECURSIVE groupByTitle_caseless(_, _)
groupByTitle_caseless(cands, map) ==
  IF cands = <<>> THEN map
  ELSE LET c == Head(cands)
           hit == {i \in 1..Len(map) : toLowerCase(map[i].title) = toLowerCase(c.strictTitle)}
           next == IF hit = {}
                     THEN Append(map, [title |-> c.strictTitle, arr |-> <<c>>])
                     ELSE [i \in 1..Len(map) |->
                             IF i \in hit
                               THEN [title |-> map[i].title, arr |-> Append(map[i].arr, c)]
                               ELSE map[i]]
       IN groupByTitle_caseless(Tail(cands), next)

\* const byTitle = new Map(): strictTitle -> array of candidates, the entries
\* in the order of the first candidate of every title.
RECURSIVE groupByTitle(_, _)
groupByTitle(cands, map) ==
  IF cands = <<>> THEN map
  ELSE LET c == Head(cands)
           hit == {i \in 1..Len(map) : map[i].title = c.strictTitle}
           next == IF hit = {}
                     THEN Append(map, [title |-> c.strictTitle, arr |-> <<c>>])
                     ELSE [i \in 1..Len(map) |->
                             IF i \in hit
                               THEN [title |-> map[i].title, arr |-> Append(map[i].arr, c)]
                               ELSE map[i]]
       IN groupByTitle(Tail(cands), next)

\* GroupByTitle not waiting for the end of Pass 2.
GroupByTitle_early ==
  /\ pc = "html"
  /\ byTitle' = groupByTitle(candidates, <<>>)
  /\ gi' = 1
  /\ pc' = "dedupe"
  /\ UNCHANGED <<srcDir, allPaths, queue, outDir, paneReads, candidates,
                 navItems, dedupeReport, report, index, call, ret, otherVars>>

\* Pass 2 is over: group the candidates by strict title.
GroupByTitle ==
  /\ pc = "html"
  /\ queue = <<>>
  /\ byTitle' = groupByTitle(candidates, <<>>)
  /\ gi' = 1
  /\ pc' = "dedupe"
  /\ UNCHANGED <<srcDir, allPaths, queue, outDir, paneReads, candidates,
                 navItems, dedupeReport, report, index, call, ret, otherVars>>

\* insertByTextLen as an unstable sort would place c: before its equals.
RECURSIVE insertByTextLen_unstable(_, _)
insertByTextLen_unstable(sorted, c) ==
  IF sorted = <<>> THEN <<c>>
  ELSE IF c.textLen - Head(sorted).textLen >= 0
    THEN <<c>> \o sorted
    ELSE <<Head(sorted)>> \o insertByTextLen_unstable(Tail(sorted), c)

\* c goes behind every element that does not sort after it.
RECURSIVE insertByTextLen(_, _)
insertByTextLen(sorted, c) ==
  IF sorted = <<>> THEN <<c>>
  ELSE IF c.textLen - Head(sorted).textLen > 0
    THEN <<c>> \o sorted
    ELSE <<Head(sorted)>> \o insertByTextLen(Tail(sorted), c)

\* arr.sort((a,b)=> b.textLen - a.textLen): Array.prototype.sort is stable.
RECURSIVE sortByTextLen(_)
sortByTextLen(arr) ==
  IF arr = <<>> THEN <<>>
  ELSE insertByTextLen(sortByTextLen(SubSeq(arr, 1, Len(arr) - 1)), arr[Len(arr)])

\* new Set(tokenize(normalizeTextForCompare(cheerio.load(<output page>))))
outputTokens(p) == Range(tokenize(normalizeTextForCompare(outDir[p].doc)))

\* isDup without the Jaccard fallback.
isDup_hammingOnly(canonical, cand) ==
  hamming64(canonical.simhash, cand.simhash) <= HAMMING_MAX

\* Whether the member cand is a duplicate of the canonical.
isDup(canonical, cand) ==
  LET ham == hamming64(canonical.simhash, cand.simhash) IN
  IF ham <= HAMMING_MAX THEN TRUE
  ELSE atLeastJaccardMin(jaccard(outputTokens(canonical.path), outputTokens(cand.path)))

\* The number n in a template literal, for n = num / den with den = 100.
numberToString(num, den) ==
  LET whole == num \div den
      cents == ((num % den) * 100) \div den
  IN ToString(whole) \o
       (IF cents = 0 THEN ""
        ELSE "." \o ToString(cents \div 10) \o
             (IF cents % 10 = 0 THEN "" ELSE ToString(cents % 10)))

\* A reason that names the Hamming rule alone.
reasonText_hammingOnly == "HAMMING<=" \o ToString(HAMMING_MAX)

reasonText ==
  "HAMMING<=" \o ToString(HAMMING_MAX) \o " or JACCARD>="
    \o numberToString(JACCARD_MIN_NUM, JACCARD_MIN_DEN)

\* navOf when duplicates are removed from the manifest instead of flagged.
navOf_dupsDropped(title, cands, dup) ==
  IF isMeaningfulTitle(title) /\ ~dup
    THEN [i \in 1..Len(cands) |-> [title |-> title, path |-> cands[i].path, dup |-> dup]]
    ELSE <<>>

\* for (const c of cands) if (isMeaningfulTitle(title)) navItems.push(...)
navOf(title, cands, dup) ==
  IF isMeaningfulTitle(title)
    THEN [i \in 1..Len(cands) |-> [title |-> title, path |-> cands[i].path, dup |-> dup]]
    ELSE <<>>

pathsOf(cands) == [i \in 1..Len(cands) |-> cands[i].path]

\* reportOf without the test of dupes.length: a record for every group.
reportOf_always(title, keep, dupes) ==
  <<[title |-> title, kept |-> pathsOf(keep), duplicates |-> pathsOf(dupes),
     reason |-> reasonText]>>

\* if (dupes.length) dedupeReport.push({ title, kept, duplicates, reason })
reportOf(title, keep, dupes) ==
  IF Len(dupes) # 0
    THEN <<[title |-> title, kept |-> pathsOf(keep), duplicates |-> pathsOf(dupes),
            reason |-> reasonText]>>
    ELSE <<>>

\* One round of the loop over byTitle.entries().
DedupeGroup ==
  /\ pc = "dedupe"
  /\ gi <= Len(byTitle)
  /\ LET title == byTitle[gi].title
         arr == byTitle[gi].arr
     IN IF Len(arr) = 1
          THEN /\ navItems' = navItems \o navOf(title, arr, FALSE)
               /\ UNCHANGED <<byTitle, dedupeReport>>
          ELSE \E sorted \in {sortByTextLen(arr)} :
               \E canonical \in {sorted[1]} :
               \E rest \in {Tail(sorted)} :
               \E keep \in {<<canonical>> \o SelectSeq(rest, LAMBDA c : ~isDup(canonical, c))} :
               \E dupes \in {SelectSeq(rest, LAMBDA c : isDup(canonical, c))} :
                  /\ byTitle' = [byTitle EXCEPT ![gi].arr = sorted]
                  /\ navItems' = navItems \o navOf(title, keep, FALSE)
                                          \o navOf(title, dupes, TRUE)
                  /\ dedupeReport' = dedupeReport \o reportOf(title, keep, dupes)
  /\ gi' = gi + 1
  /\ UNCHANGED <<pc, srcDir, allPaths, queue, outDir, paneReads, candidates,
                 report, index, call, ret, otherVars>>

\* The characters in the order of the root collation: white space,
\* punctuation, symbols, digits, letters (upper and lower case alike).
Collation ==
  "\t\n _-,;:!?.'\"()[]{}@*/\\&#%^+<=>|~$0123456789abcdefghijklmnopqrstuvwxyz"

\* primaryWeight with upper and lower case told apart: the code of c.
primaryWeight_cased(c) == CodeOf[c]

primaryWeight(c) == IndexOf(Collation, toLowerChar(c))

\* a.localeCompare(b, undefined, { sensitivity: "base" }): -1, 0 or 1.
RECURSIVE localeCompare(_, _)
localeCompare(a, b) ==
  IF a = "" /\ b = "" THEN 0
  ELSE IF a = "" THEN -1
  ELSE IF b = "" THEN 1
  ELSE LET x == primaryWeight(CharAt(a, 1))
           y == primaryWeight(CharAt(b, 1))
       IN IF x < y THEN -1
          ELSE IF x > y THEN 1
          ELSE localeCompare(Tail(a), Tail(b))

RECURSIVE insertByTitle(_, _)
insertByTitle(sorted, it) ==
  IF sorted = <<>> THEN <<it>>
  ELSE IF localeCompare(it.title, Head(sorted).title) < 0
    THEN <<it>> \o sorted
    ELSE <<Head(sorted)>> \o insertByTitle(Tail(sorted), it)

\* navItems.sort((a,b)=> a.title.localeCompare(b.title, ...)), stable.
RECURSIVE sortByTitle(_)
sortByTitle(items) ==
  IF items = <<>> THEN <<>>
  ELSE insertByTitle(sortByTitle(SubSeq(items, 1, Len(items) - 1)), items[Len(items)])

\* The end of main: sort the manifest, write the report, filter, write the index.
Finish ==
  /\ pc = "dedupe"
  /\ gi > Len(byTitle)
  /\ navItems' = sortByTitle(navItems)
  /\ report' = <<[thresholds |-> [HAMMING_MAX |-> HAMMING_MAX,
                                  JACCARD_MIN |-> <<JACCARD_MIN_NUM, JACCARD_MIN_DEN>>],
                  groups |-> dedupeReport]>>
  /\ index' = <<SelectSeq(navItems', LAMBDA it : isMeaningfulTitle(it.title))>>
  /\ pc' = "done"
  /\ UNCHANGED <<srcDir, allPaths, queue, outDir, paneReads, candidates, byTitle,
                 gi, dedupeReport, call, ret, otherVars>>

Next ==
  \/ Walk
  \/ CopyAssets
  \/ MergeFrames
  \/ FallbackFrames
  \/ NormalPage
  \/ GroupByTitle
  \/ DedupeGroup
  \/ Finish

Spec == Init /\ [][Next]_vars

(***************************************************************************)
(* main with file reads and writes that may fail                           *)
(***************************************************************************)

\* The non-HTML files in the order Pass 1 copies them.
assetPaths == SelectSeq(allPaths, LAMBDA q : ~isHtml(q))

\* main().catch(err => { console.error(err); process.exit(1); }): an awaited
\* readFile or writeFile of main rejects.  Nothing of main runs after it; what
\* the interrupted pass had written stays written.
Catch ==
  /\ pc' = "failed"
  /\ \/ \* Pass 1: the copy of the n-th non-HTML file fails.
        /\ pc = "scan"
        /\ Range(allPaths) = DOMAIN srcDir
        /\ \E n \in 1..Len(assetPaths) :
             outDir' = [rel \in {assetPaths[k] : k \in 1..(n - 1)} |->
                          [kind |-> "asset", doc |-> srcDir[rel]]]
        /\ UNCHANGED <<navItems, report>>
     \/ \* Pass 2: the read of the next document or of a pane of it, or the
        \* write of its output, fails.
        /\ pc = "html"
        /\ queue # <<>>
        /\ UNCHANGED <<outDir, navItems, report>>
     \/ \* The re-read of an output page for the Jaccard fallback fails.
        /\ pc = "dedupe"
        /\ gi <= Len(byTitle)
        /\ \E c \in Range(byTitle[gi].arr) :
             hamming64(sortByTextLen(byTitle[gi].arr)[1].simhash, c.simhash) > HAMMING_MAX
        /\ UNCHANGED <<outDir, navItems, report>>
     \/ \* The write of the report fails.
        /\ pc = "dedupe"
        /\ gi > Len(byTitle)
        /\ navItems' = sortByTitle(navItems)
        /\ UNCHANGED <<outDir, report>>
     \/ \* The write of index.html fails, after the report was written.
        /\ pc = "dedupe"
        /\ gi > Len(byTitle)
        /\ navItems' = sortByTitle(navItems)
        /\ report' = <<[thresholds |-> [HAMMING_MAX |-> HAMMING_MAX,
                                        JACCARD_MIN |-> <<JACCARD_MIN_NUM, JACCARD_MIN_DEN>>],
                        groups |-> dedupeReport]>>
        /\ UNCHANGED outDir
  /\ UNCHANGED <<srcDir, allPaths, queue, paneReads, candidates, byTitle, gi,
                 dedupeReport, index, call, ret, otherVars>>

IONext ==
  \/ Next
  \/ Catch

IOSpec == Init /\ [][IONext]_vars

(***************************************************************************)
(* The build with a full-text index                                        *)
(*                                                                         *)
(* The later version of the build script: the strict title is read from    *)
(* the document before its title is rewritten and is normalized, and every *)
(* candidate gets a record in the array fulltext, written at the end to    *)
(* _fulltext.json.  The scan, the copy of the assets, the pages written    *)
(* and the grouping are those of main above.                               *)
(***************************************************************************)

FT_SNIPPET_CHARS == 400
FT_MAX_TOKENS_PER_PAGE == 4000

\* Normalize titles: .replace(/\s+/g, " ").trim() (the two replacements
\* before it are of characters outside the alphabet of the model).
normalizeTitle(str) == trim(squeezeWhitespace(str))

\* normalizeTitle(headTitleStrict($)), headTitleStrict not trimming.
strictTitleFt(doc) == normalizeTitle(titleText(doc))

isMeaningfulTitleFt(str) ==
  LET t == normalizeTitle(str) IN
  /\ Len(t) > 0
  /\ \E i \in 1..Len(t) : IsLetter(CharAt(t, i)) \/ IsDigit(CharAt(t, i))

includeInFlatNavFt(relPath, strictTitle) ==
  LET p == toLowerCase(relPath) IN
  /\ startsWith(p, NAV_ROOT_PREFIX)
  /\ ~IsPanePath(p)
  /\ ~isExcludedFromNav(relPath)
  /\ isMeaningfulTitleFt(strictTitle)

\* Array.from(new Set(toks)): the tokens in the order of their first
\* occurrence.
distinctTokens(toks) ==
  LET first == {i \in 1..Len(toks) : \A j \in 1..(i - 1) : toks[j] # toks[i]}
  IN [k \in 1..Cardinality(first) |->
        toks[CHOOSE i \in first : Cardinality({j \in first : j < i}) = k - 1]]

\* The record of the whole normalized text instead of its first characters.
ftRecord_wholeText(rel, dispTitle, doc) ==
  LET norm == normalizeTextForCompare(doc)
      distinct == distinctTokens(tokenize(norm))
      ftTokens == IF Len(distinct) <= FT_MAX_TOKENS_PER_PAGE THEN distinct
                  ELSE SubSeq(distinct, 1, FT_MAX_TOKENS_PER_PAGE)
  IN [p |-> rel, t |-> dispTitle, w |-> join(ftTokens, " "), s |-> norm]

\* fulltext.push({ p, t, w, s })
ftRecord(rel, dispTitle, doc) ==
  LET norm == normalizeTextForCompare(doc)
      distinct == distinctTokens(tokenize(norm))
      ftTokens == IF Len(distinct) <= FT_MAX_TOKENS_PER_PAGE THEN distinct
                  ELSE SubSeq(distinct, 1, FT_MAX_TOKENS_PER_PAGE)
  IN [p |-> rel, t |-> dispTitle, w |-> join(ftTokens, " "),
      s |-> Slice(norm, 1, FT_SNIPPET_CHARS)]

\* if (includeInFlatNav(rel, strictTitle)) { candidates.push; fulltext.push }
pushBoth(rel, strictTitle, dispTitle, doc) ==
  IF includeInFlatNavFt(rel, strictTitle)
    THEN /\ candidates' = Append(candidates, candidate(rel, strictTitle, dispTitle, doc))
         /\ fulltext' = Append(fulltext, ftRecord(rel, dispTitle, doc))
    ELSE UNCHANGED <<candidates, fulltext>>

\* A frameset page with exactly two frame references.
Ft_MergeFrames ==
  /\ pc = "html"
  /\ queue # <<>>
  /\ LET rel == Head(queue)
         doc == srcDir[rel]
         frames == frameRefs(doc)
     IN /\ looksLikeFrameset(doc)
        /\ Len(frames) = 2
        /\ \E docA \in {cleanBasicHtml(paneHtml(rel, frames[1].src), FALSE)} :
           \E docB \in {cleanBasicHtml(paneHtml(rel, frames[2].src), FALSE)} :
           \E strictTitle \in {strictTitleFt(doc)} :
           \E dispTitle \in {displayTitle(doc, basename(rel))} :
           \E merged \in {mergedPage(dispTitle, extractBodyInnerHtml(docA),
                                     extractBodyInnerHtml(docB))} :
              /\ outDir' = (rel :> [kind |-> "merged", doc |-> merged]) @@ outDir
              /\ paneReads' = paneReads \cup
                   {resolveRelative(rel, frames[i].src) :
                      i \in {j \in 1..2 : paneExists(rel, frames[j].src)}}
              /\ pushBoth(rel, strictTitle, dispTitle, merged)
  /\ queue' = Tail(queue)
  /\ UNCHANGED <<pc, srcDir, allPaths, byTitle, gi, navItems, dedupeReport,
                 report, index, call, ret, ftIndex, pageVars, workerVars, auditVars>>

\* Any other frameset page.
Ft_FallbackFrames ==
  /\ pc = "html"
  /\ queue # <<>>
  /\ LET rel == Head(queue)
         doc == srcDir[rel]
         frames == frameRefs(doc)
     IN /\ looksLikeFrameset(doc)
        /\ Len(frames) # 2
        /\ \E strictTitle \in {strictTitleFt(doc)} :
           \E dispTitle \in {displayTitle(doc, basename(rel))} :
           \E fallback \in {fallbackPage(dispTitle, frames)} :
              /\ outDir' = (rel :> [kind |-> "fallback", doc |-> fallback]) @@ outDir
              /\ pushBoth(rel, strictTitle, dispTitle, fallback)
  /\ queue' = Tail(queue)
  /\ UNCHANGED <<pc, srcDir, allPaths, paneReads, byTitle, gi, navItems,
                 dedupeReport, report, index, call, ret, ftIndex, pageVars, workerVars, auditVars>>

\* A normal page: clean, convert the links, read the strict title, rewrite
\* the title, write.
Ft_NormalPage ==
  /\ pc = "html"
  /\ queue # <<>>
  /\ LET rel == Head(queue)
         raw == srcDir[rel]
     IN /\ ~looksLikeFrameset(raw)
        /\ \E clean \in {cleanBasicHtml(raw, TRUE)} :
           \E cleaned \in {[clean EXCEPT !.body = convertLinks(rel, clean.body)]} :
           \E strictTitle \in {strictTitleFt(cleaned)} :
           \E dispTitle \in {displayTitle(cleaned, basename(rel))} :
           \E written \in {setTitle(cleaned, dispTitle)} :
              /\ outDir' = (rel :> [kind |-> "normal", doc |-> written]) @@ outDir
              /\ pushBoth(rel, strictTitle, dispTitle, written)
  /\ queue' = Tail(queue)
  /\ UNCHANGED <<pc, srcDir, allPaths, paneReads, byTitle, gi, navItems,
                 dedupeReport, report, index, call, ret, ftIndex, pageVars, workerVars, auditVars>>

\* One round of the loop over byTitle.entries(): a group whose normalized
\* title is not meaningful is skipped, the members of the others are all
\* listed.
Ft_DedupeGroup ==
  /\ pc = "dedupe"
  /\ gi <= Len(byTitle)
  /\ \E title \in {normalizeTitle(byTitle[gi].title)} :
     \E arr \in {byTitle[gi].arr} :
       IF ~isMeaningfulTitleFt(title)
         THEN UNCHANGED <<byTitle, navItems, dedupeReport>>
       ELSE IF Len(arr) = 1
         THEN /\ navItems' = Append(navItems, [title |-> title, path |-> arr[1].path, dup |-> FALSE])
              /\ UNCHANGED <<byTitle, dedupeReport>>
       ELSE \E sorted \in {sortByTextLen(arr)} :
            \E canonical \in {sorted[1]} :
            \E keep \in {<<canonical>> \o SelectSeq(Tail(sorted), LAMBDA c : ~isDup(canonical, c))} :
            \E dupes \in {SelectSeq(Tail(sorted), LAMBDA c : isDup(canonical, c))} :
               /\ byTitle' = [byTitle EXCEPT ![gi].arr = sorted]
               /\ navItems' = navItems
                    \o [i \in 1..Len(keep) |-> [title |-> title, path |-> keep[i].path, dup |-> FALSE]]
                    \o [i \in 1..Len(dupes) |-> [title |-> title, path |-> dupes[i].path, dup |-> TRUE]]
               /\ dedupeReport' = dedupeReport \o reportOf(title, keep, dupes)
  /\ gi' = gi + 1
  /\ UNCHANGED <<pc, srcDir, allPaths, queue, outDir, paneReads, candidates,
                 report, index, call, ret, otherVars>>

\* The end: sort the manifest, write the report, the full-text index and
\* the index page.
Ft_Finish ==
  /\ pc = "dedupe"
  /\ gi > Len(byTitle)
  /\ navItems' = sortByTitle(navItems)
  /\ report' = <<[thresholds |-> [HAMMING_MAX |-> HAMMING_MAX,
                                  JACCARD_MIN |-> <<JACCARD_MIN_NUM, JACCARD_MIN_DEN>>],
                  groups |-> dedupeReport]>>
  /\ ftIndex' = <<fulltext>>
  /\ index' = <<SelectSeq(navItems', LAMBDA it : isMeaningfulTitleFt(it.title))>>
  /\ pc' = "done"
  /\ UNCHANGED <<srcDir, allPaths, queue, outDir, paneReads, candidates, byTitle,
                 gi, dedupeReport, call, ret, fulltext, pageVars, workerVars, auditVars>>

\* Two pages of more than FT_SNIPPET_CHARS characters of text whose titles
\* differ in white space only, a page of fewer, and a page without a title.
LongText == BigText \o " " \o BigText \o " bax bex"

FtDir ==
  { File("en/html/T01.html", Page("Torque  Specs", P(LongText \o " bix"))),
    File("en/html/T02.html", Page(" Torque Specs ", P(LongText))),
    File("en/html/T03.html", Page("Torque Specs", P("Bolt"))),
    File("en/html/T04.html", Page("", <<El("h1", <<>>, "Torque Specs", <<>>)>> \o P(LongText))) }

FtInit ==
  /\ pc = "scan"
  /\ srcDir \in Trees \cup
       { [p \in {f.path : f \in S} |-> (CHOOSE f \in S : f.path = p).doc] :
           S \in {T \in SUBSET FtDir : Cardinality(T) <= MaxFiles} }
  /\ allPaths = <<>>
  /\ queue = <<>>
  /\ outDir = <<>>
  /\ paneReads = {}
  /\ candidates = <<>>
  /\ byTitle = <<>>
  /\ gi = 1
  /\ navItems = <<>>
  /\ dedupeReport = <<>>
  /\ report = <<>>
  /\ index = <<>>
  /\ call = <<>>
  /\ ret = <<>>
  /\ OtherInit

FtNext ==
  \/ Walk
  \/ CopyAssets
  \/ Ft_MergeFrames
  \/ Ft_FallbackFrames
  \/ Ft_NormalPage
  \/ GroupByTitle
  \/ Ft_DedupeGroup
  \/ Ft_Finish

FtSpec == FtInit /\ [][FtNext]_vars

(***************************************************************************)
(* The index page: the filter of the list                                  *)
(*                                                                         *)
(* The script of index.html as writeIndexFlat writes it.  Every handler,   *)
(* timeout and animation frame callback runs to its end before the next    *)
(* starts.  The callbacks of two runs that wait for the same frame are     *)
(* taken in any order.                                                     *)
(***************************************************************************)

CHUNK == 1500
MaxRuns == 2

\* The manifest of the page: one chunk and one item more, the titles and
\* duplicate flags repeating.
PageEntries ==
  << [title |-> "Brakes", dup |-> FALSE], [title |-> "Brakes", dup |-> TRUE],
     [title |-> "Clutch", dup |-> FALSE], [title |-> "Engine Removal", dup |-> TRUE],
     [title |-> "ENGINE BLOCK", dup |-> FALSE] >>

\* const items = (() => {...})(): the lower-cased title and the duplicate flag
\* of every list item.
pageItems ==
  [k \in 1..(CHUNK + 1) |->
     LET p == PageEntries[((k - 1) % Len(PageEntries)) + 1]
     IN [title |-> toLowerCase(p.title), isDup |-> p.dup]]

\* What the user may type into the search box.
Queries == {"", "br", " ENGINE "}

\* function applyFiltersNow(), up to requestAnimationFrame(step)
applyFiltersNow ==
  /\ searchSeq' = searchSeq + 1
  /\ runs' = Append(runs, [q |-> toLowerCase(trim(search)), hideDup |-> hideDup,
                           i |-> 0, frame |-> TRUE])

\* The page is loaded: the saved preference is read and the initial render
\* requested.
PageInit ==
  /\ pc = "page"
  /\ srcDir = <<>> /\ allPaths = <<>> /\ queue = <<>> /\ outDir = <<>>
  /\ paneReads = {} /\ candidates = <<>> /\ byTitle = <<>> /\ gi = 1
  /\ navItems = <<>> /\ dedupeReport = <<>> /\ report = <<>> /\ index = <<>>
  /\ call = <<>> /\ ret = <<>> /\ fulltext = <<>> /\ ftIndex = <<>>
  /\ NoAudit
  /\ search = ""
  /\ hideDup \in BOOLEAN
  /\ searchTimer = FALSE
  /\ searchSeq = 1
  /\ runs = <<[q |-> "", hideDup |-> hideDup, i |-> 0, frame |-> TRUE]>>
  /\ display = [k \in 1..Len(pageItems) |-> TRUE]
  /\ NoWorker

\* function requestFilter()
requestFilter == searchTimer' = TRUE

\* search.addEventListener('input', requestFilter)
Input ==
  /\ pc = "page"
  /\ \E v \in Queries \ {search} : search' = v
  /\ requestFilter
  /\ UNCHANGED <<pc, buildVars, workerVars, hideDup, searchSeq, runs, display>>

\* toggleHideDup.addEventListener('change', ...)
Change ==
  /\ pc = "page"
  /\ hideDup' = ~hideDup
  /\ requestFilter
  /\ UNCHANGED <<pc, buildVars, workerVars, search, searchSeq, runs, display>>

\* The timeout of requestFilter fires, 150 ms after the last request.
Timeout ==
  /\ pc = "page"
  /\ searchTimer
  /\ searchSeq < MaxRuns
  /\ searchTimer' = FALSE
  /\ applyFiltersNow
  /\ UNCHANGED <<pc, buildVars, workerVars, search, hideDup, display>>

\* The pageItems lo + 1 .. end shown or hidden as the run r says.
stepChunk(r, end) ==
  \E shown \in {[t \in {pageItems[k].title : k \in 1..Len(PageEntries)} |->
                   IF runs[r].q # "" THEN includes(t, runs[r].q) ELSE TRUE]} :
    display' = [k \in 1..Len(pageItems) |->
                  IF k > runs[r].i /\ k <= end
                    THEN shown[pageItems[k].title] /\ (~runs[r].hideDup \/ ~pageItems[k].isDup)
                    ELSE display[k]]

\* step() without the check of mySeq.
step_unchecked(r) ==
  \E end \in {IF runs[r].i + CHUNK < Len(pageItems) THEN runs[r].i + CHUNK ELSE Len(pageItems)} :
    /\ stepChunk(r, end)
    /\ runs' = [runs EXCEPT ![r].i = end, ![r].frame = end < Len(pageItems)]

\* function step(), the animation frame callback of the run with mySeq = r
step(r) ==
  IF r # searchSeq
    THEN /\ runs' = [runs EXCEPT ![r].frame = FALSE]
         /\ UNCHANGED display
    ELSE \E end \in {IF runs[r].i + CHUNK < Len(pageItems) THEN runs[r].i + CHUNK ELSE Len(pageItems)} :
           /\ stepChunk(r, end)
           /\ runs' = [runs EXCEPT ![r].i = end, ![r].frame = end < Len(pageItems)]

\* An animation frame: the callback a run has requested is called.
AnimationFrame ==
  /\ pc = "page"
  /\ \E r \in 1..Len(runs) :
       /\ runs[r].frame
       /\ step(r)
  /\ UNCHANGED <<pc, buildVars, workerVars, search, hideDup, searchTimer, searchSeq>>

PageNext ==
  \/ Input
  \/ Change
  \/ Timeout
  \/ AnimationFrame

PageSpec == PageInit /\ [][PageNext]_vars

(***************************************************************************)
(* The index page with content search                                      *)
(*                                                                         *)
(* The script of the index page that the build with a full-text index      *)
(* writes, and its worker.  A handler runs to its end before the next      *)
(* starts: applySearch awaits ensureWorker, which awaits nothing, so the   *)
(* rest of applySearch runs before any other handler.  The worker takes    *)
(* its messages in the order they were posted, and so does the page.  Of   *)
(* a rendering the model keeps which items are displayed, not the snippets *)
(* and badges.                                                             *)
(***************************************************************************)

MaxMessages == 2

\* The manifest of the page and the records of _fulltext.json.
CsEntries ==
  << [title |-> "Oil Pan", path |-> "en/html/C01.html", dup |-> FALSE, w |-> "oil pan bolt"],
     [title |-> "Oil Pan", path |-> "en/html/C02.html", dup |-> TRUE, w |-> "oil pan bolt"],
     [title |-> "Brakes", path |-> "en/html/C03.html", dup |-> FALSE, w |-> "brake pad oil"],
     [title |-> "Clutch", path |-> "en/html/C04.html", dup |-> FALSE, w |-> "clutch pedal"] >>

\* const items, with the path of every list item.
csItems ==
  [k \in 1..Len(CsEntries) |->
     [title |-> toLowerCase(CsEntries[k].title), isDup |-> CsEntries[k].dup,
      path |-> CsEntries[k].path]]

CsQueries == {"", "Clutch pedal", "b"}

\* function filterTitlesNow(q, hideDup), up to requestAnimationFrame(step)
filterTitlesNow(q, hide) ==
  /\ searchSeq' = searchSeq + 1
  /\ runs' = Append(runs, [q |-> q, hideDup |-> hide, i |-> 0, frame |-> TRUE])

\* async function applySearch(), ensureWorker included.
applySearch ==
  \E q \in {toLowerCase(trim(search))} :
    IF ~useContent \/ Len(q) < 2
      THEN /\ searchSeq < MaxRuns
           /\ filterTitlesNow(q, hideDup)
           /\ UNCHANGED <<ftWorker, workerInbox>>
    ELSE IF ~ftWorker
      THEN /\ ftWorker' = TRUE
           /\ workerInbox' = Append(workerInbox, [type |-> "load"])
           /\ UNCHANGED <<searchSeq, runs>>
    ELSE IF ~ftLoaded
      THEN UNCHANGED <<ftWorker, workerInbox, searchSeq, runs>>
    ELSE /\ Len(workerInbox) + Len(pageInbox) < MaxMessages
         /\ workerInbox' = Append(workerInbox, [type |-> "query", q |-> q])
         /\ UNCHANGED <<ftWorker, searchSeq, runs>>

\* The page is loaded: the saved preferences are read and
\* filterTitlesNow('', !!toggleHideDup.checked) is called.
CsInit ==
  /\ pc = "content"
  /\ srcDir = <<>> /\ allPaths = <<>> /\ queue = <<>> /\ outDir = <<>>
  /\ paneReads = {} /\ candidates = <<>> /\ byTitle = <<>> /\ gi = 1
  /\ navItems = <<>> /\ dedupeReport = <<>> /\ report = <<>> /\ index = <<>>
  /\ call = <<>> /\ ret = <<>> /\ fulltext = <<>> /\ ftIndex = <<>>
  /\ NoAudit
  /\ search = ""
  /\ hideDup \in BOOLEAN
  /\ useContent \in BOOLEAN
  /\ searchTimer = FALSE
  /\ searchSeq = 1
  /\ runs = <<[q |-> "", hideDup |-> hideDup, i |-> 0, frame |-> TRUE]>>
  /\ display = [k \in 1..Len(csItems) |-> TRUE]
  /\ ftWorker = FALSE
  /\ ftLoaded = FALSE
  /\ data = FALSE
  /\ workerInbox = <<>>
  /\ pageInbox = <<>>

\* search.addEventListener('input', requestFilter)
Cs_Input ==
  /\ pc = "content"
  /\ \E v \in CsQueries \ {search} : search' = v
  /\ requestFilter
  /\ UNCHANGED <<pc, buildVars, workerVars, hideDup, searchSeq, runs, display>>

\* toggleHideDup.addEventListener('change', ...)
Cs_ChangeHideDup ==
  /\ pc = "content"
  /\ hideDup' = ~hideDup
  /\ requestFilter
  /\ UNCHANGED <<pc, buildVars, workerVars, search, searchSeq, runs, display>>

\* toggleContent.addEventListener('change', ...)
Cs_ChangeContent ==
  /\ pc = "content"
  /\ useContent' = ~useContent
  /\ requestFilter
  /\ UNCHANGED <<pc, buildVars, search, hideDup, searchSeq, runs, display,
                 ftWorker, ftLoaded, data, workerInbox, pageInbox>>

\* The timeout of requestFilter fires: applySearch.
Cs_Timeout ==
  /\ pc = "content"
  /\ searchTimer
  /\ searchTimer' = FALSE
  /\ applySearch
  /\ UNCHANGED <<pc, buildVars, search, hideDup, display, useContent, ftLoaded,
                 data, pageInbox>>

\* An animation frame: step() of the title run with mySeq = r.
Cs_AnimationFrame ==
  /\ pc = "content"
  /\ \E r \in 1..Len(runs) :
       /\ runs[r].frame
       /\ IF r # searchSeq
            THEN /\ runs' = [runs EXCEPT ![r].frame = FALSE]
                 /\ UNCHANGED display
            ELSE \E end \in {IF runs[r].i + CHUNK < Len(csItems)
                               THEN runs[r].i + CHUNK ELSE Len(csItems)} :
                   /\ display' =
                        [k \in 1..Len(csItems) |->
                           IF k > runs[r].i /\ k <= end
                             THEN /\ (IF runs[r].q # ""
                                        THEN includes(csItems[k].title, runs[r].q)
                                        ELSE TRUE)
                                  /\ (~runs[r].hideDup \/ ~csItems[k].isDup)
                             ELSE display[k]]
                   /\ runs' = [runs EXCEPT ![r].i = end, ![r].frame = end < Len(csItems)]
  /\ UNCHANGED <<pc, buildVars, workerVars, search, hideDup, searchTimer, searchSeq>>

\* The paths of the records that hold every term of the query (fewer than
\* 250 records: items.slice(0, 250) drops none).
queryResults(q) ==
  \E terms \in {SelectSeq(split(trim(toLowerCase(q)), " "), LAMBDA x : Len(x) > 0)} :
    pageInbox' = Append(pageInbox,
      [type |-> "results",
       items |-> IF Len(trim(toLowerCase(q))) < 2 THEN {}
                 ELSE {CsEntries[k].path :
                         k \in {n \in 1..Len(CsEntries) :
                                  \A t \in Range(terms) : includes(CsEntries[n].w, t)}}])

\* self.onmessage of the worker, for the oldest message posted to it.
Cs_WorkerMessage ==
  /\ pc = "content"
  /\ workerInbox # <<>>
  /\ workerInbox' = Tail(workerInbox)
  /\ IF Head(workerInbox).type = "load"
       THEN /\ data' = TRUE
            /\ pageInbox' = Append(pageInbox, [type |-> "loaded"])
       ELSE /\ queryResults(Head(workerInbox).q)
            /\ UNCHANGED data
  /\ UNCHANGED <<pc, buildVars, pageVars, useContent, ftWorker, ftLoaded>>

\* function renderContentResults(results)
renderContentResults(results) ==
  display' = [k \in 1..Len(csItems) |->
                csItems[k].path \in results /\ (~hideDup \/ ~csItems[k].isDup)]

\* ftWorker.onmessage, for the oldest message the worker posted.
Cs_PageMessage ==
  /\ pc = "content"
  /\ pageInbox # <<>>
  /\ pageInbox' = Tail(pageInbox)
  /\ IF Head(pageInbox).type = "loaded"
       THEN /\ ftLoaded' = TRUE
            /\ \E q \in {toLowerCase(trim(search))} :
                 IF ~useContent \/ Len(q) < 2
                   THEN /\ searchSeq < MaxRuns
                        /\ filterTitlesNow(q, hideDup)
                        /\ UNCHANGED workerInbox
                   ELSE /\ workerInbox' = Append(workerInbox, [type |-> "query", q |-> q])
                        /\ UNCHANGED <<searchSeq, runs>>
            /\ UNCHANGED display
       ELSE /\ renderContentResults(Head(pageInbox).items)
            /\ UNCHANGED <<ftLoaded, workerInbox, searchSeq, runs>>
  /\ UNCHANGED <<pc, buildVars, search, hideDup, searchTimer, useContent, data, ftWorker>>

CsNext ==
  \/ Cs_Input
  \/ Cs_ChangeHideDup
  \/ Cs_ChangeContent
  \/ Cs_Timeout
  \/ Cs_AnimationFrame
  \/ Cs_WorkerMessage
  \/ Cs_PageMessage

CsSpec == CsInit /\ [][CsNext]_vars

(***************************************************************************)
(* The audit script                                                        *)
(*                                                                         *)
(* The script scans the HTML files one after the other.  For every         *)
(* relative link of a file it starts an existence check and does not       *)
(* await it: the check goes on when its fs.access has completed, which     *)
(* the event loop may deliver during any later await of main that waits    *)
(* for I/O.  After the last file main serializes the metrics.              *)
(***************************************************************************)

brokenLinksMax == 200

\* /^([a-z]+:)?\/\//i.test(href) || href.startsWith("mailto:") || href.startsWith("data:")
isExternalUrl(href) ==
  LET i == IndexOf(href, ":") IN
  \/ startsWith(href, "//")
  \/ /\ i > 1
     /\ \A j \in 1..(i - 1) : CharAt(href, j) \in LowerSet \cup UpperSet
     /\ startsWith(Slice(href, i + 1, Len(href)), "//")
  \/ startsWith(href, "mailto:")
  \/ startsWith(href, "data:")

\* The links of a document that get an existence check, in the order of
\* linkAttrs: { href, clean }.
linkChecks(rel, doc) ==
  LET refs(tag, name) ==
        LET els == byTag(doc.body, tag)
        IN [i \in 1..Len(els) |-> trim(attr(els[i], name))]
      all == refs("a", "href") \o refs("link", "href")
               \o refs("script", "src") \o refs("img", "src")
      rels == SelectSeq(all, LAMBDA href :
                href # "" /\ ~startsWith(href, "#") /\ ~isExternalUrl(href))
  IN [i \in 1..Len(rels) |->
        [href |-> rels[i],
         clean |-> split(split(resolveRelative(rel, rels[i]), "#")[1], "?")[1]]]

\* fs.access(path.join(srcDir, relPath)) succeeds: a file or a directory.
access(tree, relPath) ==
  LET p == IF endsWith(relPath, "/") THEN Slice(relPath, 1, Len(relPath) - 1)
           ELSE relPath
  IN \/ p = "."
     \/ p \in DOMAIN tree
     \/ \E f \in DOMAIN tree : startsWith(f, p \o "/")

\* fileExists(relPath): <<the value returned, existsCache afterwards>>.
fileExists(tree, cache, relPath) ==
  IF relPath \in DOMAIN cache THEN <<cache[relPath], cache>>
  ELSE <<access(tree, relPath),
         [p \in DOMAIN cache \cup {relPath} |->
            IF p = relPath THEN access(tree, relPath) ELSE cache[p]]>>

\* The body of the async function started for a link, from its first await
\* to its end: <<ok, existsCache afterwards>>.
checkLink(tree, cache, clean) ==
  LET first == fileExists(tree, cache, clean) IN
  IF first[1] \/ extname(clean) # "" THEN first
  ELSE LET html == fileExists(tree, first[2], clean \o "/index.html") IN
       IF html[1] THEN html
       ELSE fileExists(tree, html[2], clean \o "/index.htm")

AuditDir ==
  { File("index.html",
         Page("Home", <<Link("a.html", "A "), Link("gone.html", "Gone "),
                        Link("http://example.org/", "Out "), Link("#top", "Top "),
                        El("img", <<<<"src", "img/logo.gif">>>>, "", <<>>)>>)),
    File("a.html",
         Page("A", <<Link("index.html#top", "Home "), Link("sub", "Sub "),
                     Link("lost", "Lost ")>>)),
    File("sub/index.htm",
         Page("B", <<Link("../a.html?x=1", "A "), Link("gone.html", "Gone ")>>)),
    File("img/logo.gif", Asset) }

AuditTrees ==
  { [p \in {f.path : f \in S} |-> (CHOOSE f \in S : f.path = p).doc] :
      S \in {T \in SUBSET AuditDir : \E f \in T : isHtml(f.path)} }

\* The state when the scan of the HTML files begins: htmlFiles holds the
\* HTML files in the order the walk found them.
AuditInit ==
  /\ pc = "audit"
  /\ srcDir \in AuditTrees
  /\ \E html \in {{p \in DOMAIN srcDir : isHtml(p)}} :
       queue \in {s \in [1..Cardinality(html) -> html] :
                    \A i, j \in DOMAIN s : s[i] = s[j] => i = j}
  /\ allPaths = <<>> /\ outDir = <<>> /\ paneReads = {}
  /\ candidates = <<>> /\ byTitle = <<>> /\ gi = 0
  /\ navItems = <<>> /\ dedupeReport = <<>> /\ report = <<>> /\ index = <<>>
  /\ call = <<>> /\ ret = <<>> /\ fulltext = <<>> /\ ftIndex = <<>>
  /\ PageClosed
  /\ NoWorker
  /\ NoAudit

\* One turn of for (const { abs, rel } of htmlFiles): the file is read and
\* every relative link of it starts a check, which stops at its first await.
Audit_ScanFile ==
  /\ pc = "audit"
  /\ queue # <<>>
  /\ \E rel \in {Head(queue)} :
       \E links \in {linkChecks(rel, srcDir[rel])} :
         checks' = checks \cup
           {[from |-> rel, n |-> i, href |-> links[i].href, clean |-> links[i].clean] :
              i \in 1..Len(links)}
  /\ queue' = Tail(queue)
  /\ UNCHANGED <<pc, srcDir, allPaths, outDir, paneReads, candidates, byTitle, gi,
                 navItems, dedupeReport, report, index, call, ret, fulltext,
                 ftIndex, pageVars, workerVars, existsCache, brokenLinks,
                 analysisReport>>

\* A check started for a link goes on after its await and runs to its end.
Audit_CheckDone ==
  /\ \E c \in checks :
       /\ checks' = checks \ {c}
       /\ \E res \in {checkLink(srcDir, existsCache, c.clean)} :
            /\ existsCache' = res[2]
            /\ brokenLinks' =
                 IF ~res[1] /\ Len(brokenLinks) < brokenLinksMax
                   THEN Append(brokenLinks, [from |-> c.from, href |-> c.href])
                   ELSE brokenLinks
  /\ UNCHANGED <<pc, srcDir, allPaths, queue, outDir, paneReads, candidates,
                 byTitle, gi, navItems, dedupeReport, report, index, call, ret,
                 fulltext, ftIndex, pageVars, workerVars, analysisReport>>

\* After the loop: metrics.html.brokenLinksSample = brokenLinks and
\* JSON.stringify(metrics), the argument of fs.writeFile.
Audit_WriteJson ==
  /\ pc = "audit"
  /\ queue = <<>>
  /\ analysisReport' = <<brokenLinks>>
  /\ pc' = "json"
  /\ UNCHANGED <<srcDir, allPaths, queue, outDir, paneReads, candidates, byTitle,
                 gi, navItems, dedupeReport, report, index, call, ret, fulltext,
                 ftIndex, pageVars, workerVars, existsCache, checks, brokenLinks>>

\* After the JSON file is written: the Markdown report, with
\* JSON.stringify(metrics.html.brokenLinksSample), the same array.
Audit_WriteMarkdown ==
  /\ pc = "json"
  /\ analysisReport' = Append(analysisReport, brokenLinks)
  /\ pc' = "audited"
  /\ UNCHANGED <<srcDir, allPaths, queue, outDir, paneReads, candidates, byTitle,
                 gi, navItems, dedupeReport, report, index, call, ret, fulltext,
                 ftIndex, pageVars, workerVars, existsCache, checks, brokenLinks>>

AuditNext ==
  \/ Audit_ScanFile
  \/ Audit_CheckDone
  \/ Audit_WriteJson
  \/ Audit_WriteMarkdown

AuditSpec == AuditInit /\ [][AuditNext]_vars

(***************************************************************************)
(* The helper functions called on their own                                *)
(*                                                                         *)
(* A call applies one function of the script to each argument list of      *)
(* call.args and returns the results in ret; convertHref reads allPaths,   *)
(* which holds the scanned paths for the call.                             *)
(***************************************************************************)

MaxTokens == 3

Words == {"oil", "pan", "nut"}

\* The token lists of at most MaxTokens words.
TokenLists == UNION {[1..n -> Words] : n \in 0..MaxTokens}

\* The orders a token list can be put in.
Reorderings(tokens) ==
  {[i \in 1..Len(tokens) |-> tokens[f[i]]] : f \in Permutations(1..Len(tokens))}

\* Fingerprints with few 1 bits, with few 0 bits, and of either extreme.
Fingerprints ==
  SUBSET {0, 1, 31, 32, 63} \cup {(0..63) \ low : low \in {{}, {0}, {63}}}

TokenSets == SUBSET (Words \cup {"rod"})

\* A page argument as it is written after the id: its value, quoted or not,
\* with or without white space around it.
PageArgs == [value : {"1", "2", "12", "a"}, quoted : BOOLEAN, pad : {"", " "}]

pageText(pg) ==
  LET q == IF pg.quoted THEN "'" ELSE ""
  IN pg.pad \o "," \o pg.pad \o q \o pg.value \o q \o pg.pad

prtCall(id, tail) == "javascript:parent.Prt('" \o id \o "'" \o tail \o ")"

\* The scans a link is resolved in: any of the candidate files of ABC123.
ScanLists ==
  { SelectSeq(<<"en/html/ABC123.html", "en/html/ABC123_PR.html",
                "en/html/ABC123_PR1.html", "en/html/ABC123_PR2.html">>,
              LAMBDA p : p \in S) :
      S \in SUBSET {"en/html/ABC123.html", "en/html/ABC123_PR.html",
                    "en/html/ABC123_PR1.html", "en/html/ABC123_PR2.html"} }

\* Documents handed to the sanitizer: the parse of the empty string, frameset
\* documents with and without a title, a page whose elements carry handlers
\* at two depths next to attributes that only resemble them, and the
\* documents of the source trees.
SanitizerInputs ==
  { EmptyDoc,
    FramesetPage(<<>>, <<Frame("a", "P01.html"), Frame("", "")>>),
    FramesetPage(<<"Wiring">>, <<Frame("left", "F01_PR1.html")>>),
    Page("Handlers",
         << El("div", <<<<"onclick", "a()">>, <<"id", "x">>>>, "",
               << El("a", << <<"href", "#">>, <<"onmouseover", "b()">>,
                             <<"on", "c">>, <<"one2", "d">>, <<"on-x", "e">> >>,
                     "more", <<>>),
                  El("script", <<<<"onload", "f()">>>>, "new ActiveXObject('x')", <<>>) >>),
            El("img", <<<<"onerror", "g()">>, <<"src", "logo.gif">>>>, "", <<>>) >>) }
  \cup {f.doc : f \in {g \in UNION Directories : isHtml(g.path)}}

Calls ==
  { [fn |-> "cleanBasicHtml", args |-> << <<doc, TRUE>>, <<doc, FALSE>> >>] :
      doc \in SanitizerInputs }
  \cup
  { [fn |-> "convertHref", page |-> pg,
     args |-> << <<"en/html/L01.html", prtCall(id, pageText(pg))>>,
                 <<"en/html/L01.html", prtCall(id, "")>> >>] :
      id \in {"ABC123", "NONE"}, pg \in PageArgs }
  \cup
  UNION { { [fn |-> "simhash64", args |-> << <<tokens>>, <<other>> >>] :
              other \in Reorderings(tokens) \cup {Tail(tokens \o <<"oil">>)} } :
          tokens \in TokenLists }
  \cup
  { [fn |-> "hamming64", args |-> << <<a, b>>, <<b, a>> >>] :
      a \in Fingerprints, b \in Fingerprints }
  \cup
  { [fn |-> "jaccard", args |-> << <<aSet, bSet>>, <<bSet, aSet>>, <<aSet, aSet>> >>] :
      aSet \in TokenSets, bSet \in TokenSets }

CallInit ==
  /\ pc = "call"
  /\ call \in Calls
  /\ allPaths \in (IF call.fn = "convertHref" THEN ScanLists ELSE {<<>>})
  /\ ret = <<>>
  /\ srcDir = <<>>
  /\ queue = <<>>
  /\ outDir = <<>>
  /\ paneReads = {}
  /\ candidates = <<>>
  /\ byTitle = <<>>
  /\ gi = 1
  /\ navItems = <<>>
  /\ dedupeReport = <<>>
  /\ report = <<>>
  /\ index = <<>>
  /\ OtherInit

Return(results) ==
  /\ ret' = results
  /\ pc' = "return"
  /\ UNCHANGED <<srcDir, allPaths, queue, outDir, paneReads, candidates, byTitle,
                 gi, navItems, dedupeReport, report, index, call, otherVars>>

Call_convertHref ==
  /\ pc = "call"
  /\ call.fn = "convertHref"
  /\ Return([i \in 1..Len(call.args) |-> convertHref(call.args[i][1], call.args[i][2])])

Call_simhash64 ==
  /\ pc = "call"
  /\ call.fn = "simhash64"
  /\ Return([i \in 1..Len(call.args) |-> simhash64(call.args[i][1])])

Call_hamming64 ==
  /\ pc = "call"
  /\ call.fn = "hamming64"
  /\ Return([i \in 1..Len(call.args) |-> hamming64(call.args[i][1], call.args[i][2])])

Call_jaccard ==
  /\ pc = "call"
  /\ call.fn = "jaccard"
  /\ Return([i \in 1..Len(call.args) |-> jaccard(call.args[i][1], call.args[i][2])])

Call_cleanBasicHtml ==
  /\ pc = "call"
  /\ call.fn = "cleanBasicHtml"
  /\ Return([i \in 1..Len(call.args) |-> cleanBasicHtml(call.args[i][1], call.args[i][2])])

CallNext ==
  \/ Call_cleanBasicHtml
  \/ Call_convertHref
  \/ Call_simhash64
  \/ Call_hamming64
  \/ Call_jaccard

CallSpec == CallInit /\ [][CallNext]_vars

(***************************************************************************)
(* Properties                                                              *)
(***************************************************************************)

\* The number of bit positions in which two fingerprints differ.
HammingDistance(a, b) == Cardinality((a \ b) \cup (b \ a))

\* |A \cap B| / |A \cup B| >= 0.98 (two empty sets count as identical).
JaccardAtLeast98(A, B) ==
  Cardinality(A \cap B) * 100 >= 98 * Cardinality(A \cup B)

NearDuplicates(c, m) ==
  \/ HammingDistance(c.simhash, m.simhash) <= 3
  \/ JaccardAtLeast98(outputTokens(c.path), outputTokens(m.path))

\* The title groups the dedupe loop has handled; arr[1] is the canonical.
Handled == {byTitle[g].arr : g \in 1..(gi - 1)}

\* C1: in every title group with more than one candidate, a non-canonical
\* member is flagged duplicate if and only if its fingerprint is within
\* Hamming distance 3 of the canonical's or, failing that, the Jaccard
\* similarity of the two token sets is at least 0.98; nothing else (no other
\* member) enters the decision.
C1_DuplicateIffNearCanonical ==
  \A arr \in Handled :
    \A k \in 2..Len(arr) :
      /\ \E it \in Range(navItems) : it.path = arr[k].path
      /\ \A it \in Range(navItems) :
           it.path = arr[k].path => (it.dup <=> NearDuplicates(arr[1], arr[k]))

\* Two members that are near-duplicates of each other, but not of the
\* canonical, have both been kept.
C1_Witness ==
  /\ pc = "done"
  /\ \E arr \in Handled :
       \E k, l \in 2..Len(arr) :
         /\ k # l
         /\ HammingDistance(arr[k].simhash, arr[l].simhash) <= 3
         /\ \A it \in Range(navItems) : it.path \in {arr[k].path, arr[l].path} => ~it.dup
         /\ ~NearDuplicates(arr[1], arr[k])
         /\ ~NearDuplicates(arr[1], arr[l])

\* The position at which the scan discovered a path.
scanIndex(p) == CHOOSE i \in 1..Len(allPaths) : allPaths[i] = p

\* The manifest entries of one title, in manifest order.
entriesOf(title) == SelectSeq(navItems, LAMBDA it : it.title = title)

\* C2: in every title group with more than one candidate the canonical is the
\* member with the longest normalized text and, among the members of that
\* length, the one the scan discovered first.  The canonical is thereby a
\* function of the candidate list: it is the group's first manifest entry and
\* is determined by the lengths and the scan positions alone.
C2_CanonicalLongestThenFirstScanned ==
  \A arr \in Handled :
    Len(arr) > 1 =>
      LET canonical == arr[1]
          members == {c \in Range(candidates) : c.strictTitle = canonical.strictTitle}
      IN /\ Range(arr) = members
         /\ \A m \in members :
              \/ m.textLen < canonical.textLen
              \/ /\ m.textLen = canonical.textLen
                 /\ scanIndex(canonical.path) <= scanIndex(m.path)
         /\ entriesOf(canonical.strictTitle)[1].path = canonical.path

\* A group in which two members tie on the maximal length has been handled,
\* and the canonical is not the member that a sort by path would put first.
C2_Witness ==
  /\ pc = "done"
  /\ \E arr \in Handled :
       \E k \in 2..Len(arr) :
         /\ arr[k].textLen = arr[1].textLen
         /\ arr[1].path = "en/html/D06.html"
         /\ arr[k].path = "en/html/D01.html"

\* The strict titles of the candidates, and the candidates of one title.
Titles == {c.strictTitle : c \in Range(candidates)}
membersOf(title) == SelectSeq(candidates, LAMBDA c : c.strictTitle = title)
PathSet(items) == {items[i].path : i \in 1..Len(items)}

\* The manifest written to index.html, and its entries of one title.
Manifest == Head(index)
listedAs(title) == SelectSeq(Manifest, LAMBDA it : it.title = title)

\* The records of the written report.
Records == Head(report).groups

\* C3: once the run is over, the manifest holds for every title group of size
\* N exactly N entries of that title, one for each member path; and a report
\* record lists as duplicates exactly the flagged entries of its title and
\* as kept exactly the others.
C3_EveryMemberListedOnce ==
  pc = "done" =>
    /\ \A title \in Titles :
         /\ Len(listedAs(title)) = Len(membersOf(title))
         /\ PathSet(listedAs(title)) = PathSet(membersOf(title))
         /\ Cardinality(PathSet(listedAs(title))) = Len(membersOf(title))
    /\ \A i \in 1..Len(Records) :
         LET r == Records[i]
             flagged == SelectSeq(listedAs(r.title), LAMBDA it : it.dup)
             others == SelectSeq(listedAs(r.title), LAMBDA it : ~it.dup)
         IN /\ Range(r.duplicates) = PathSet(flagged)
            /\ Range(r.kept) = PathSet(others)

\* A finished run whose report has a record with two kept members and a
\* duplicate, all three in the manifest.
C3_Witness ==
  /\ pc = "done"
  /\ \E i \in 1..Len(Records) :
       /\ Len(Records[i].kept) = 2
       /\ Len(Records[i].duplicates) = 1
       /\ Len(listedAs(Records[i].title)) = 3

\* The candidate of a path.
candidateAt(p) == CHOOSE c \in Range(candidates) : c.path = p

\* The rules a reason text names.
rulesNamed(reason) == {w \in {"HAMMING", "JACCARD"} : includes(reason, w)}

C5_OneRecordPerGroupWithDuplicates ==
  /\ \A arr \in Handled :
       LET title == arr[1].strictTitle
           records == SelectSeq(dedupeReport, LAMBDA r : r.title = title)
           flagged == {it \in Range(navItems) : it.title = title /\ it.dup}
       IN /\ Len(records) = IF flagged # {} THEN 1 ELSE 0
          /\ Len(arr) = 1 => records = <<>>
          /\ \A it \in Range(navItems) : it.path = arr[1].path => ~it.dup
          /\ \A r \in Range(records) :
               /\ Range(r.kept) \cap Range(r.duplicates) = {}
               /\ Range(r.kept) \cup Range(r.duplicates) = PathSet(arr)
               /\ Len(r.kept) + Len(r.duplicates) = Len(arr)
               /\ arr[1].path \in Range(r.kept)
  /\ \A i \in 1..Len(dedupeReport) :
       \E arr \in Handled : arr[1].strictTitle = dedupeReport[i].title
  /\ pc = "done" => Records = dedupeReport

\* A written report with a record for one group while another group of two
\* members without duplicates, or a singleton group, has none.
C5_Witness ==
  /\ pc = "done"
  /\ Len(Records) = 1
  /\ \E arr \in Handled :
       /\ \A i \in 1..Len(Records) : Records[i].title # arr[1].strictTitle
       /\ Len(arr) = 1

\* The HTML documents of the source tree, and the ones Pass 2 has handled.
HtmlPaths == {p \in DOMAIN srcDir : isHtml(p)}
Written == {p \in DOMAIN outDir : outDir[p].kind # "asset"}

\* The paths that are candidates, grouped, or listed.
CandidatePaths == PathSet(candidates)
GroupedPaths == UNION {PathSet(byTitle[g].arr) : g \in 1..Len(byTitle)}
ListedPaths == PathSet(navItems) \cup (IF index = <<>> THEN {} ELSE PathSet(Manifest))

\* The text of the title element of a source document ("" without one).
sourceTitle(p) == titleText(srcDir[p])

\* C6: no document whose title element text is empty, white space only or
\* without a letter or digit is ever a dedup candidate, in a title group or
\* in the navigation manifest, whatever the page kind and whatever its first
\* heading or file name.
C6_MeaninglessTitleNeverListed ==
  \A p \in HtmlPaths :
    ~isMeaningfulTitle(sourceTitle(p)) =>
      p \notin CandidatePaths \cup GroupedPaths \cup ListedPaths

\* The four conditions of navigation eligibility, on the source document.
HasPaneSuffix(p) ==
  \E lower \in {toLowerCase(p)} :
    \E s \in {"_pr1.html", "_pr1.htm", "_pr2.html", "_pr2.htm"} :
      endsWith(lower, s)

Eligible(p) ==
  /\ startsWith(toLowerCase(p), "en/html/")
  /\ ~HasPaneSuffix(p)
  /\ ~isExcludedFromNav(p)
  /\ isMeaningfulTitle(sourceTitle(p))

\* C7: a document is a dedup candidate only if its path starts with en/html/
\* (case-insensitively), has no _PR1/_PR2 pane suffix, is on no exclusion
\* pattern and its strict title is meaningful; and every written HTML
\* document with all four is a candidate exactly once.
C7_CandidateIffEligible ==
  /\ \A p \in CandidatePaths : Eligible(p)
  /\ \A p \in Written :
       Eligible(p) => Len(SelectSeq(candidates, LAMBDA c : c.path = p)) = 1

\* C8 (as amended): no document whose path ends, case-insensitively, in
\* _PR1.html, _PR1.htm, _PR2.html or _PR2.htm is ever a dedup candidate or a
\* manifest entry, whatever its title.
C8_PaneSuffixPathsNeverListed ==
  \A p \in CandidatePaths \cup GroupedPaths \cup ListedPaths : ~HasPaneSuffix(p)

\* A finished run in which a two-frame page has loaded a pane with the
\* _PR2 suffix and a meaningful title, which was written but is not listed.
C8_Witness ==
  /\ pc = "done"
  /\ \E p \in paneReads :
       /\ HasPaneSuffix(p)
       /\ isMeaningfulTitle(sourceTitle(p))
       /\ p \in Written
       /\ p \notin ListedPaths

\* C8 as stated: a document that a two-frame page loads as a pane is never a
\* dedup candidate or a manifest entry.
C8_LoadedPanesNeverListed ==
  \A p \in paneReads : p \notin CandidatePaths \cup ListedPaths

\* The frame references of a source document: its frames with a target.
references(p) == SelectSeq(srcDir[p].frames, LAMBDA f : f.src # "")
FrameBased(p) == srcDir[p].frameset /\ srcDir[p].frames # <<>>

\* The links of a written page: target and label, in document order.
linksOf(doc) ==
  LET as == byTag(doc.body, "a")
  IN [i \in 1..Len(as) |-> [href |-> attr(as[i], "href"), label |-> as[i].text]]

\* C9: a frame-based document with three or more frame references is written
\* as the fallback listing, one link per reference, labelled with the frame's
\* name (else its target) and pointing at the raw target; and a merged page
\* is written only for a frame-based document with exactly two references.
C9_ThreeOrMoreFramesListed ==
  \A p \in Written :
    /\ (FrameBased(p) /\ Len(references(p)) >= 3) =>
         /\ outDir[p].kind = "fallback"
         /\ linksOf(outDir[p].doc) =
              [i \in 1..Len(references(p)) |->
                 [href |-> references(p)[i].src,
                  label |-> IF references(p)[i].name # ""
                              THEN references(p)[i].name
                              ELSE references(p)[i].src]]
    /\ outDir[p].kind = "merged" => (FrameBased(p) /\ Len(references(p)) = 2)

\* A three-frame page, one frame of it unnamed, has been written while a
\* two-frame page of the same tree has been merged.
C9_Witness ==
  /\ \E p \in Written :
       /\ FrameBased(p)
       /\ Len(references(p)) = 3
       /\ \E i \in 1..3 : references(p)[i].name = ""
  /\ \E p \in Written : outDir[p].kind = "merged"

\* The two regions of a merged page: the content of its aside and its main.
regionsOf(doc) ==
  LET grid == doc.body[2].kids
  IN << SelectSeq(grid, LAMBDA n : n.tag = "aside")[1].kids,
        SelectSeq(grid, LAMBDA n : n.tag = "main")[1].kids >>

\* Whether a frame reference of p leads to an HTML document of the scan, and
\* that document after sanitizing (suspicious scripts and event handlers out).
paneFound(p, ref) ==
  LET r == resolveRelative(p, ref.src) IN isHtml(r) /\ r \in DOMAIN srcDir
paneOf(p, ref) == cleanBasicHtml(srcDir[resolveRelative(p, ref.src)], FALSE)

\* C10 (as amended): a frame-based document with exactly two frame references
\* is written as one merged page whose first region holds the content of the
\* first pane and whose second region that of the second: the body content of
\* the sanitized pane, or, for a pane document without a body element (a
\* frameset document), the markup that is left of it, its charset meta and
\* title elements; a pane that is not in the scan or is no HTML document
\* gives an empty region, and the merge is written all the same.
C10_TwoFramesMerged ==
  \A p \in Written :
    (FrameBased(p) /\ Len(references(p)) = 2) =>
      /\ outDir[p].kind = "merged"
      /\ \A i \in 1..2 :
           \A ref \in {references(p)[i]} :
           regionsOf(outDir[p].doc)[i] =
             IF ~paneFound(p, ref) THEN <<>>
             ELSE IF paneOf(p, ref).hasBody THEN paneOf(p, ref).body
             ELSE <<El("meta", <<<<"charset", "utf-8">>>>, "", <<>>)>> \o
                  [k \in 1..Len(paneOf(p, ref).titles) |->
                     El("title", <<>>, paneOf(p, ref).titles[k], <<>>)]

\* A merged page with a first pane that was found and has content and a
\* second pane that is missing from the scan.
C10_Witness ==
  \E p \in Written :
    /\ FrameBased(p)
    /\ Len(references(p)) = 2
    /\ paneFound(p, references(p)[1])
    /\ regionsOf(outDir[p].doc)[1] # <<>>
    /\ ~paneFound(p, references(p)[2])
    /\ regionsOf(outDir[p].doc)[2] = <<>>

\* C10 as stated: each region of the merged page holds the body content of
\* its pane, and nothing when the pane is not in the scan or no HTML document.
C10_RegionsHoldPaneBodies ==
  \A p \in Written :
    (FrameBased(p) /\ Len(references(p)) = 2) =>
      /\ outDir[p].kind = "merged"
      /\ \A i \in 1..2 :
           \A ref \in {references(p)[i]} :
           regionsOf(outDir[p].doc)[i] =
             IF paneFound(p, ref) THEN paneOf(p, ref).body ELSE <<>>

(***************************************************************************)
(* Link resolution                                                         *)
(***************************************************************************)

NormalPages == {p \in Written : outDir[p].kind = "normal"}

\* The hrefs of the anchors of a page, in document order.
hrefsOf(doc) ==
  LET as == byTag(doc.body, "a") IN [i \in 1..Len(as) |-> attr(as[i], "href")]

\* The id of the href javascript:parent.<fn>('<id>'), "" for any other href.
CallId(js, fn) ==
  LET pre == "javascript:parent." \o fn \o "('"
      id == Slice(js, Len(pre) + 1, Len(js) - 2)
  IN IF startsWith(js, pre) /\ endsWith(js, "')") /\ IndexOf(id, "'") = 0
       THEN id ELSE ""

\* The id of a Prt('<id>') or Cts('<id>') call.
OpenId(js) == IF CallId(js, "Prt") # "" THEN CallId(js, "Prt") ELSE CallId(js, "Cts")

Candidates(id) == <<id \o ".html", id \o "_PR.html", id \o "_PR1.html", id \o "_PR2.html">>

\* The candidates of id that are files of the source tree, seen from page p.
PresentFrom(p, id) ==
  {k \in 1..4 : resolveRelative(p, Candidates(id)[k]) \in DOMAIN srcDir}

\* C11: on a written normal page, the href of a Prt('<id>') or Cts('<id>')
\* link has become the first of <id>.html, <id>_PR.html, <id>_PR1.html,
\* <id>_PR2.html that, resolved against the page's directory, is a file of
\* the scan: a later candidate only when every earlier one is absent, and the
\* href is the candidate name itself.
C11_FirstPresentCandidateWins ==
  \A p \in NormalPages :
    \A i \in 1..Len(hrefsOf(srcDir[p])) :
      \A id \in {OpenId(hrefsOf(srcDir[p])[i])} :
        \A present \in {IF id = "" THEN {} ELSE PresentFrom(p, id)} :
          (id # "" /\ present # {}) =>
             /\ hrefsOf(outDir[p].doc)[i] = Candidates(id)[Min(present)]
             /\ \A k \in 1..(Min(present) - 1) :
                  resolveRelative(p, Candidates(id)[k]) \notin DOMAIN srcDir

\* A page whose directory holds ABC123_PR1.html but neither ABC123.html nor
\* ABC123_PR.html has been written, its Prt('ABC123') link now ABC123_PR1.html.
C11_Witness ==
  \E p \in NormalPages :
    \E i \in 1..Len(hrefsOf(srcDir[p])) :
      /\ hrefsOf(srcDir[p])[i] = "javascript:parent.Prt('ABC123')"
      /\ 3 \in PresentFrom(p, "ABC123")
      /\ PresentFrom(p, "ABC123") \cap {1, 2} = {}
      /\ hrefsOf(outDir[p].doc)[i] = "ABC123_PR1.html"

\* C12: on a written normal page, the href of every Jmp('<id>') link is the
\* placeholder "#", whatever the id and whatever files the scan holds, the
\* files <id>.html, <id>_PR.html, <id>_PR1.html and <id>_PR2.html included.
C12_JmpAlwaysPlaceholder ==
  \A p \in NormalPages :
    \A i \in 1..Len(hrefsOf(srcDir[p])) :
      \A js \in {hrefsOf(srcDir[p])[i]} :
        CallId(js, "Jmp") # "" => hrefsOf(outDir[p].doc)[i] = "#"

\* A Jmp('<id>') link has become "#" on a page whose directory holds a
\* candidate file of that id.
C12_Witness ==
  \E p \in NormalPages :
    \E i \in 1..Len(hrefsOf(srcDir[p])) :
      LET id == CallId(hrefsOf(srcDir[p])[i], "Jmp") IN
      /\ id # ""
      /\ PresentFrom(p, id) # {}
      /\ hrefsOf(outDir[p].doc)[i] = "#"

PseudoProtocol(js) == startsWith(js, "javascript:parent.")

CandidateSuffixes == {".html", "_PR.html", "_PR1.html", "_PR2.html"}

\* name is a candidate file name of an id that js quotes, and a file of the
\* scan when resolved against the directory of page p.
CandidateOf(p, js, name) ==
  /\ resolveRelative(p, name) \in DOMAIN srcDir
  /\ \E suf \in CandidateSuffixes :
       /\ endsWith(name, suf)
       /\ Len(name) > Len(suf)
       /\ includes(js, "'" \o Slice(name, 1, Len(name) - Len(suf)) \o "'")

\* js names none of the three functions.
Unrecognized(js) ==
  \A fn \in {"parent.prt(", "parent.cts(", "parent.jmp("} : ~includes(toLowerCase(js), fn)

\* C13: on a written normal page, every link whose href began with
\* javascript:parent. has either the href "#" or a candidate file name of
\* its id that is a file of the scan; a Prt or Cts call without any such
\* file and an href that names none of Prt, Cts, Jmp both have "#"; and no
\* such link keeps a javascript:parent. href.
C13_PseudoLinksResolvedOrInert ==
  \A p \in NormalPages :
    \A i \in 1..Len(hrefsOf(srcDir[p])) :
      \A js \in {hrefsOf(srcDir[p])[i]} :
        \A href \in {hrefsOf(outDir[p].doc)[i]} :
          PseudoProtocol(js) =>
            /\ href = "#" \/ CandidateOf(p, js, href)
            /\ \A id \in {OpenId(js)} :
                 (id # "" /\ PresentFrom(p, id) = {}) => href = "#"
            /\ Unrecognized(js) => href = "#"
            /\ ~PseudoProtocol(href)

\* One written page has a Prt link without any candidate file and a link to
\* an unknown function, both now "#", next to a link that was resolved.
C13_Witness ==
  \E p \in NormalPages :
    \E i, j, k \in 1..Len(hrefsOf(srcDir[p])) :
      /\ OpenId(hrefsOf(srcDir[p])[i]) # ""
      /\ PresentFrom(p, OpenId(hrefsOf(srcDir[p])[i])) = {}
      /\ hrefsOf(outDir[p].doc)[i] = "#"
      /\ PseudoProtocol(hrefsOf(srcDir[p])[j])
      /\ Unrecognized(hrefsOf(srcDir[p])[j])
      /\ hrefsOf(outDir[p].doc)[j] = "#"
      /\ PseudoProtocol(hrefsOf(srcDir[p])[k])
      /\ hrefsOf(outDir[p].doc)[k] \notin {"#", hrefsOf(srcDir[p])[k]}

(***************************************************************************)
(* The order of the manifest                                               *)
(***************************************************************************)

\* The place of a character in the alphabet of the comparison, its case
\* ignored.
Rank(c) == IndexOf(Collation, CharAt(toLowerCase(c), 1))

\* a does not compare greater than b when letter case is ignored: a is a
\* prefix of b, or a has the lesser character where the two first differ.
NotGreaterIgnoringCase(a, b) ==
  LET differ == {i \in 1..Len(a) : Rank(CharAt(a, i)) # Rank(CharAt(b, i))}
  IN differ # {} => /\ Min(differ) <= Len(b)
                    /\ Rank(CharAt(a, Min(differ))) < Rank(CharAt(b, Min(differ)))

\* The members of the group of a title, in the order the grouping pass left
\* them in.
groupOf(title) == byTitle[CHOOSE g \in 1..Len(byTitle) : byTitle[g].title = title].arr

flaggedPaths == {it.path : it \in {e \in Range(Manifest) : e.dup}}

\* C18: in the manifest written at the end of the run no entry is followed by
\* one whose title compares less when letter case is ignored; and the
\* entries of one title are its kept members, then its duplicates, each in
\* the order of the grouping pass.
C18_ManifestSortedIgnoringCase ==
  pc = "done" =>
    /\ \A i \in 1..(Len(Manifest) - 1) :
         NotGreaterIgnoringCase(Manifest[i].title, Manifest[i + 1].title)
    /\ \A title \in {Manifest[i].title : i \in 1..Len(Manifest)} :
         pathsOf(listedAs(title)) =
           SelectSeq(pathsOf(groupOf(title)), LAMBDA p : p \notin flaggedPaths)
             \o SelectSeq(pathsOf(groupOf(title)), LAMBDA p : p \in flaggedPaths)

\* A written manifest in which an entry with a lower-case title precedes one
\* whose title begins with a capital letter that has the lesser code.
C18_Witness ==
  /\ pc = "done"
  /\ \E i \in 1..(Len(Manifest) - 1) :
       /\ CodeOf[CharAt(Manifest[i].title, 1)] > CodeOf[CharAt(Manifest[i + 1].title, 1)]
       /\ Rank(CharAt(Manifest[i].title, 1)) < Rank(CharAt(Manifest[i + 1].title, 1))

(***************************************************************************)
(* Failures                                                                *)
(***************************************************************************)

\* C19: when a read or a write of one file has failed, the run still
\* processes and writes every other document of the scan and produces the
\* report and the manifest: a run never ends with more than the one document
\* unwritten, or without the report or the manifest.
C19_FailureDoesNotAbortBatch ==
  pc = "failed" =>
    /\ Cardinality(HtmlPaths \ DOMAIN outDir) <= 1
    /\ report # <<>>
    /\ index # <<>>

(***************************************************************************)
(* The order of the passes                                                 *)
(***************************************************************************)

\* The grouping pass has started.
Grouping == pc \in {"dedupe", "done"}

AllWritten == HtmlPaths \subseteq DOMAIN outDir

\* C20: the grouping pass starts only when every HTML document of the scan
\* has been written, and no output document is written once it has started,
\* so the Jaccard fallback reads complete output only; and from Pass 2 on,
\* where panes are looked up and links resolved, the scanned path set holds
\* every file of the source tree and does not change.
C20_GroupingAfterAllWrites ==
  [][ /\ (~Grouping /\ pc' \in {"dedupe", "done"}) => (AllWritten /\ outDir' = outDir)
      /\ Grouping => outDir' = outDir
      /\ (pc = "scan" /\ pc' # "scan") => Range(allPaths) = DOMAIN srcDir
      /\ pc' # "scan" => allPaths' = allPaths ]_vars

\* The grouping pass has classified a member by the Jaccard fallback, that
\* is by a read of two written pages.
C20_Witness ==
  /\ Grouping
  /\ AllWritten
  /\ \E arr \in Handled :
       \E i \in 2..Len(arr) :
         /\ hamming64(arr[1].simhash, arr[i].simhash) > HAMMING_MAX
         /\ {arr[1].path, arr[i].path} \subseteq DOMAIN outDir

(***************************************************************************)
(* The mirrored tree                                                       *)
(***************************************************************************)

Returned(fn) == pc = "return" /\ call.fn = fn

\* The page arguments the Prt pattern accepts: one decimal digit.
SingleDigit(pg) == Len(pg.value) = 1 /\ IsDigit(pg.value)

\* C14: a Prt call with a page argument of one decimal digit, in single
\* quotes or not, resolves to the same href as the call without the page
\* argument, for every id and every set of scanned paths; with any other
\* page argument the href is no Prt call and resolves to "#".
C14_SingleDigitPageIgnored ==
  Returned("convertHref") =>
    IF SingleDigit(call.page) THEN ret[1] = ret[2] ELSE ret[1] = "#"

\* A call with a quoted page argument has been resolved to a candidate file,
\* the same as the call without it.
C14_Witness ==
  /\ Returned("convertHref")
  /\ SingleDigit(call.page)
  /\ call.page.quoted
  /\ ret[1] = "ABC123_PR.html"
  /\ ret[2] = "ABC123_PR.html"

\* C14 as stated: with every page argument the call resolves to the same
\* href as the call without it.
C14_AnyPageIgnored ==
  Returned("convertHref") => ret[1] = ret[2]

\* How often the token w occurs in the list.
Count(tokens, w) == Cardinality({i \in 1..Len(tokens) : tokens[i] = w})

\* The two lists hold the same tokens with the same multiplicities.
SameMultiset(a, b) == \A w \in Range(a) \cup Range(b) : Count(a, w) = Count(b, w)

\* C15: two token lists that hold the same tokens with the same
\* multiplicities, in whatever order, have the same fingerprint; so have two
\* calls on the same list.
C15_FingerprintOfTheMultiset ==
  Returned("simhash64") =>
    (SameMultiset(call.args[1][1], call.args[2][1]) => ret[1] = ret[2])

\* Two different orders of a list with a repeated token have returned the
\* same fingerprint, which is not the empty one.
C15_Witness ==
  /\ Returned("simhash64")
  /\ call.args[1][1] # call.args[2][1]
  /\ SameMultiset(call.args[1][1], call.args[2][1])
  /\ \E w \in Words : Count(call.args[1][1], w) = 2
  /\ ret[1] = ret[2]
  /\ ret[1] # {}

\* C16: hamming64(a, b) is the number of bit positions in which a and b
\* differ; it is 0 exactly when a = b, the same for (b, a), and between 0
\* and 64.
C16_HammingCountsDifferingBits ==
  Returned("hamming64") =>
    LET a == call.args[1][1]
        b == call.args[1][2]
    IN /\ ret[1] = Cardinality({i \in 0..63 : (i \in a) # (i \in b)})
       /\ (ret[1] = 0) <=> (a = b)
       /\ ret[1] = ret[2]
       /\ ret[1] \in 0..64

\* Two fingerprints that differ in bits on both sides of bit 32 and agree in
\* others have been compared.
C16_Witness ==
  /\ Returned("hamming64")
  /\ \E i \in 0..31, j \in 32..63 :
       /\ i \in call.args[1][1] \ call.args[1][2]
       /\ j \in call.args[1][2] \ call.args[1][1]
  /\ call.args[1][1] \cap call.args[1][2] # {}
  /\ ret[1] \in 2..63

\* The value of a fraction compared with that of another.
SameValue(x, y) == x.num * y.den = y.num * x.den

\* C17: jaccard(A, B) is |A \cap B| / |A \cup B| when the union is not
\* empty and 1 when both sets are empty; jaccard(A, A) = 1, jaccard(A, B) =
\* jaccard(B, A), the value is in [0, 1], and the divisor is never 0.
C17_JaccardIsIntersectionOverUnion ==
  Returned("jaccard") =>
    LET A == call.args[1][1]
        B == call.args[1][2]
        one == [num |-> 1, den |-> 1]
    IN /\ \A i \in 1..3 : ret[i].den > 0 /\ ret[i].num \in 0..ret[i].den
       /\ A \cup B # {} =>
            SameValue(ret[1], [num |-> Cardinality(A \cap B), den |-> Cardinality(A \cup B)])
       /\ A \cup B = {} => SameValue(ret[1], one)
       /\ SameValue(ret[3], one)
       /\ SameValue(ret[1], ret[2])

\* jaccard has returned a value strictly between 0 and 1 for two sets that
\* overlap, neither of which holds the other.
C17_Witness ==
  /\ Returned("jaccard")
  /\ call.args[1][1] \cap call.args[1][2] # {}
  /\ call.args[1][1] \ call.args[1][2] # {}
  /\ call.args[1][2] \ call.args[1][1] # {}
  /\ ret[1].num \in 1..(ret[1].den - 1)


(***************************************************************************)
(* The sanitizer                                                           *)
(***************************************************************************)

\* The elements of a node list, at every depth.
RECURSIVE elementsOf(_)
elementsOf(nodes) ==
  IF nodes = <<>> THEN {}
  ELSE {Head(nodes)} \cup elementsOf(Head(nodes).kids) \cup elementsOf(Tail(nodes))

\* on<letters>, in either case.
IsHandlerName(k) ==
  /\ Len(k) >= 3
  /\ SubSeq(k, 1, 1) \in {"o", "O"}
  /\ SubSeq(k, 2, 2) \in {"n", "N"}
  /\ \A i \in 3..Len(k) : SubSeq(k, i, i) \in LowerSet \cup UpperSet

HandlerAttrs(doc) ==
  UNION { {<<n.tag, n.attrs[i][1]>> : i \in {j \in 1..Len(n.attrs) : IsHandlerName(n.attrs[j][1])}} :
            n \in elementsOf(doc.body) }

\* C22: whatever document the sanitizer is given, the empty one included,
\* and whether scripts are kept or not, its result holds no frameset and no
\* frame, no element at any depth carries an attribute named on<letters>,
\* and it has a title, the empty one when the input had none.
C22_SanitizerPostconditions ==
  Returned("cleanBasicHtml") =>
    \A i \in 1..Len(call.args) :
      /\ ~ret[i].frameset
      /\ ret[i].frames = <<>>
      /\ HandlerAttrs(ret[i]) = {}
      /\ ret[i].titles # <<>>
      /\ call.args[i][1].titles = <<>> => ret[i].titles = <<"">>

\* A page with handlers on an element and on its child came back without
\* them, and the look-alike attributes of the child are still there.
C22_Witness ==
  /\ Returned("cleanBasicHtml")
  /\ {<<"div", "onclick">>, <<"a", "onmouseover">>} \subseteq HandlerAttrs(call.args[1][1])
  /\ HandlerAttrs(ret[1]) = {}
  /\ \E n \in elementsOf(ret[1].body) :
       n.tag = "a" /\ [j \in 1..Len(n.attrs) |-> n.attrs[j][1]] = <<"href", "on", "one2", "on-x">>


(***************************************************************************)
(* The full-text index                                                     *)
(***************************************************************************)

\* Navigation eligibility in the build with a full-text index: the title of
\* the source document, its white space normalized, holds a letter or digit.
EligibleFt(p) ==
  /\ startsWith(toLowerCase(p), "en/html/")
  /\ ~HasPaneSuffix(p)
  /\ ~isExcludedFromNav(p)
  /\ \E i \in 1..Len(sourceTitle(p)) :
       IsLetter(CharAt(sourceTitle(p), i)) \/ IsDigit(CharAt(sourceTitle(p), i))

\* C23: the full-text index written holds exactly one record for every
\* navigation-eligible document and none for another; the paths of the
\* records, of the candidates and of the manifest are the same set; and the
\* snippet of a record is the first 400 characters of the normalized text of
\* the document written at its path.
C23_OneRecordPerEligibleDocument ==
  pc = "done" =>
    \A records \in {Head(ftIndex)} :
      /\ \A p \in HtmlPaths :
           Cardinality({i \in 1..Len(records) : records[i].p = p})
             = IF EligibleFt(p) THEN 1 ELSE 0
      /\ {records[i].p : i \in 1..Len(records)} = CandidatePaths
      /\ CandidatePaths = PathSet(Manifest)
      /\ \A i \in 1..Len(records) :
           \A text \in {normalizeTextForCompare(outDir[records[i].p].doc)} :
             records[i].s = SubSeq(text, 1, IF Len(text) < 400 THEN Len(text) ELSE 400)

\* A run that wrote three records: two of pages with more than 400
\* characters of text, one of them listed as a duplicate, and one of a page
\* with fewer.
C23_Witness ==
  /\ pc = "done"
  /\ Len(Head(ftIndex)) = 3
  /\ Cardinality({i \in 1..3 : Len(Head(ftIndex)[i].s) = 400
                    /\ candidates[i].textLen > 400}) = 2
  /\ \E i \in 1..3 : Len(Head(ftIndex)[i].s) < 400
  /\ \E i \in 1..Len(Manifest) : Manifest[i].dup


(***************************************************************************)
(* The bits of a fingerprint                                               *)
(***************************************************************************)

\* C24: bit i of the fingerprint is 1 exactly when, of the tokens counted
\* as often as they occur, strictly more have bit i of their hash set than
\* clear; a tie gives 0, and the empty token list the fingerprint 0.
C24_BitIsStrictMajority ==
  Returned("simhash64") =>
    \A k \in 1..Len(call.args) :
      \A tokens \in {call.args[k][1]} :
      \A hs \in {[n \in 1..Len(tokens) |-> fnv1a64(tokens[n])]} :
        /\ \A i \in 0..63 :
             i \in ret[k] <=>
               Cardinality({n \in 1..Len(tokens) : hashBit(hs[n], i) = 1})
                 > Cardinality({n \in 1..Len(tokens) : hashBit(hs[n], i) = 0})
        /\ tokens = <<>> => ret[k] = {}

\* "pan", "oil" and "oil", "oil" were fingerprinted: a bit that the hash of
\* "oil" has and that of "pan" has not is 0 in the first fingerprint (a tie)
\* and 1 in the second.
C24_Witness ==
  /\ Returned("simhash64")
  /\ call.args[1][1] = <<"pan", "oil">>
  /\ call.args[2][1] = <<"oil", "oil">>
  /\ \E i \in 0..63 :
       /\ hashBit(fnv1a64("oil"), i) = 1
       /\ hashBit(fnv1a64("pan"), i) = 0
       /\ i \notin ret[1]
       /\ i \in ret[2]


(***************************************************************************)
(* The filter of the index page                                            *)
(***************************************************************************)

\* The entries of the manifest a query and a setting of "Hide duplicates"
\* leave visible: the title holds the query (trimmed, cases ignored), and
\* the entry is no duplicate when duplicates are hidden.
VisibleFor(query, hide) ==
  {e \in 1..Len(PageEntries) :
     /\ includes(toLowerCase(PageEntries[e].title), toLowerCase(trim(query)))
     /\ ~hide \/ ~PageEntries[e].dup}

\* C25: a step of a run that a newer run has superseded changes no list
\* item; and when the run of the newest request has finished (no request
\* waits for its timeout and the newest run has gone through the list),
\* an item is visible exactly if its title contains the query of the search
\* box and "Hide duplicates" is off or the item is not a duplicate.
C25_NewestFilterRunWins ==
  [][ /\ \A r \in 1..Len(runs) :
           (r < searchSeq /\ runs'[r] # runs[r]) => display' = display
      /\ (~searchTimer' /\ ~runs'[searchSeq'].frame) =>
           \A visible \in {VisibleFor(search', hideDup')} :
             \A k \in 1..(CHUNK + 1) :
               display'[k] <=> (((k - 1) % Len(PageEntries)) + 1 \in visible) ]_vars

\* The first run went through one chunk, was superseded by a run for
\* another query and dropped at its next frame; the second run has
\* finished and no request is waiting.
C25_Witness ==
  /\ pc = "page"
  /\ searchSeq = 2
  /\ runs[1].i = CHUNK /\ ~runs[1].frame
  /\ runs[2].q = "engine" /\ runs[2].i = CHUNK + 1 /\ ~runs[2].frame
  /\ ~searchTimer
  /\ \E k \in 1..(CHUNK + 1) : display[k]
  /\ \E k \in 1..(CHUNK + 1) : ~display[k]


(***************************************************************************)
(* Title groups and the case of titles                                     *)
(***************************************************************************)

\* The title groups holding the candidate of path p.
groupsOf(p) == {g \in 1..Len(byTitle) : p \in PathSet(byTitle[g].arr)}

\* C26: two candidates are in the same title group exactly when their
\* strict titles are the same string, case included; candidates whose
\* titles differ, be it in case only, are in no record of the report
\* together, although the comparison that sorts the manifest takes titles
\* that differ in case only for equal.
C26_GroupsAreCaseSensitive ==
  pc = "done" =>
    \A i \in 1..Len(candidates), j \in 1..Len(candidates) :
      \A c \in {candidates[i]}, d \in {candidates[j]} :
        /\ Cardinality(groupsOf(c.path)) = 1
        /\ (groupsOf(c.path) = groupsOf(d.path)) <=> (c.strictTitle = d.strictTitle)
        /\ c.strictTitle # d.strictTitle =>
             \A k \in 1..Len(Records) :
               ~({c.path, d.path} \subseteq
                   Range(Records[k].kept) \cup Range(Records[k].duplicates))
        /\ toLowerCase(c.strictTitle) = toLowerCase(d.strictTitle) =>
             localeCompare(c.strictTitle, d.strictTitle) = 0

\* Two pages with the same tokens whose titles differ in case only were
\* grouped apart and are both listed as originals.
C26_Witness ==
  /\ pc = "done"
  /\ \E i \in 1..Len(candidates), j \in 1..Len(candidates) :
       /\ candidates[i].strictTitle # candidates[j].strictTitle
       /\ toLowerCase(candidates[i].strictTitle) = toLowerCase(candidates[j].strictTitle)
       /\ candidates[i].simhash = candidates[j].simhash
       /\ groupsOf(candidates[i].path) # groupsOf(candidates[j].path)
       /\ \A k \in 1..Len(Manifest) :
            Manifest[k].path \in {candidates[i].path, candidates[j].path} => ~Manifest[k].dup


(***************************************************************************)
(* Frames without a source                                                 *)
(***************************************************************************)

\* C27: of the frame elements of a frameset document only those with a
\* non-empty src count: with exactly two of them the page is merged, however
\* many frame elements there are; with any other number it is the fallback
\* listing with that many entries, one for a single reference and none when
\* every frame lacks a src, and never a normal page.
C27_OnlyFramesWithSrcCount ==
  \A p \in Written :
    (srcDir[p].frameset /\ srcDir[p].frames # <<>>) =>
      \A n \in {Cardinality({i \in 1..Len(srcDir[p].frames) : srcDir[p].frames[i].src # ""})} :
        /\ n = 2 => outDir[p].kind = "merged"
        /\ n # 2 => /\ outDir[p].kind = "fallback"
                    /\ Len(linksOf(outDir[p].doc)) = n

\* A page of three frames, two with a src, has been merged; a page with a
\* single reference has been listed with one entry, and a page whose frames
\* all lack a src with none.
C27_Witness ==
  /\ \E p \in Written :
       /\ Len(srcDir[p].frames) = 3
       /\ Len(references(p)) = 2
       /\ outDir[p].kind = "merged"
  /\ \E p \in Written :
       /\ Len(srcDir[p].frames) = 2
       /\ Len(references(p)) = 1
       /\ outDir[p].kind = "fallback"
       /\ Len(linksOf(outDir[p].doc)) = 1
  /\ \E p \in Written :
       /\ srcDir[p].frames # <<>>
       /\ references(p) = <<>>
       /\ outDir[p].kind = "fallback"
       /\ linksOf(outDir[p].doc) = <<>>


(***************************************************************************)
(* The links of a pane in the merged page                                  *)
(***************************************************************************)

\* C28: the anchors of a pane keep their hrefs in the region of the merged
\* page, a javascript:parent.* href included, whereas in the output page of
\* the pane itself no such href is left.
C28_PaneLinksUnresolvedInMergedPage ==
  \A p \in Written :
    outDir[p].kind = "merged" =>
      \A i \in 1..2 :
        \A ref \in {references(p)[i]} :
          (paneFound(p, ref) /\ srcDir[resolveRelative(p, ref.src)].hasBody) =>
            \A q \in {resolveRelative(p, ref.src)} :
            \A before \in {hrefsOf(srcDir[q])} :
              /\ hrefsOf([body |-> regionsOf(outDir[p].doc)[i]]) = before
              /\ q \in NormalPages =>
                   \A k \in 1..Len(before) :
                     PseudoProtocol(before[k]) =>
                       ~PseudoProtocol(hrefsOf(outDir[q].doc)[k])

\* A merged page holds the javascript:parent.Prt link of its first pane as
\* it was, its handler gone, and the page written for that pane holds the
\* link resolved to a file.
C28_Witness ==
  \E p \in Written :
    /\ outDir[p].kind = "merged"
    /\ \E q \in {resolveRelative(p, references(p)[1].src)} :
         /\ q \in NormalPages
         /\ \E a \in Range(byTag(regionsOf(outDir[p].doc)[1], "a")) :
              /\ PseudoProtocol(attr(a, "href"))
              /\ attr(a, "onclick") = ""
         /\ hrefsOf(srcDir[q]) = <<"javascript:parent.Prt('F01_PR2')">>
         /\ hrefsOf(outDir[q].doc) = <<"F01_PR2.html">>


(***************************************************************************)
(* Content search: the list and the latest query                           *)
(***************************************************************************)

\* What the list has to show for the search box and the two checkboxes as
\* they are: with content search on and a query of two characters or more
\* the items whose record holds every term of the query, else the items
\* whose title holds the query; duplicates only if they are not hidden.
ExpectedCs(k) ==
  /\ IF useContent /\ Len(trim(search)) >= 2
       THEN \A t \in Range(split(toLowerCase(trim(search)), " ")) :
              includes(CsEntries[k].w, t)
       ELSE includes(toLowerCase(CsEntries[k].title), toLowerCase(trim(search)))
  /\ ~hideDup \/ ~CsEntries[k].dup

\* Nothing is under way: no timeout, no animation frame callback and no
\* message is waiting, and the worker is loaded if the search needs it.
Settled ==
  /\ pc = "content"
  /\ ~searchTimer
  /\ \A r \in 1..Len(runs) : ~runs[r].frame
  /\ workerInbox = <<>>
  /\ pageInbox = <<>>
  /\ (useContent /\ Len(trim(search)) >= 2) => ftLoaded

\* C29: whatever the order of input events, timeouts, animation frames and
\* worker messages, the list ends up showing the latest query: once nothing
\* is under way, the items displayed are those of the query and the
\* settings as they are, never those of results for an earlier query.
C29_ListShowsLatestQuery ==
  Settled => \A k \in 1..Len(CsEntries) : display[k] <=> ExpectedCs(k)

(***************************************************************************)
(* The audit script: the broken-link sample                                *)
(***************************************************************************)

\* The links of the HTML files of the source tree whose target is missing.
MissingLinks ==
  UNION {{[from |-> rel, href |-> l.href] :
            l \in {m \in Range(linkChecks(rel, srcDir[rel])) :
                     ~checkLink(srcDir, <<>>, m.clean)[1]}} :
           rel \in {p \in DOMAIN srcDir : isHtml(p)}}

\* C30: every existence check started during the scan has completed before
\* the analysis report is serialized: the broken-link sample of the report
\* holds every link found missing, up to 200 entries, and never more than 200.
C30_SampleHoldsEveryMissingLink ==
  analysisReport # <<>> =>
    \A sample \in {analysisReport[1]} :
      /\ Len(sample) <= brokenLinksMax
      /\ \A missing \in {MissingLinks} :
           \/ Len(sample) = brokenLinksMax
           \/ \A l \in missing : \E i \in 1..Len(sample) : sample[i] = l

====
